---- MODULE Spec2Model ----
(***************************************************************************)
(* The bridge broker of ethers-signers-browser: the CommServer actor of    *)
(* http/comm.rs, driven by the messages of its two mailboxes (WSReply from *)
(* the websocket sessions, AsyncRequest from the server facade).  Every    *)
(* handler runs to completion, so every handler is one action.             *)
(***************************************************************************)
EXTENDS Naturals, Sequences, FiniteSets

\* ------------------------------------------------------------------ bounds
NumSessions == 3      \* websocket sessions that may ever be opened
MaxRequests == 2      \* AsyncRequests the callers may ever submit
MaxReplies  == 3      \* response frames the sessions may ever deliver
MaxTimeout  == 1      \* longest finite timeout of a wait_for_reply, in turns of its loop
NumChains   == 2      \* chain ids a change_chain may ask for
MaxRpc      == 3      \* requests the hook may ever make to the wallet
NumNonces   == 2      \* values the nonce of a Server may take
MaxFrames   == 2      \* request frames the front-end may ever receive

Sessions == 1..NumSessions
NoClient == 0         \* Option<WebsocketClient>::None
NoId     == 0         \* an id that gen_id never produced

\* AsyncRequestContent (payload fields are carried verbatim, only the variant is kept)
AsyncRequestContent ==
    {"Accounts", "SignTextMessage", "SignBinaryMessage", "SignTransaction", "SignTypedData"}

\* the variants the callers of this model submit: the broker treats every variant
\* alike (one arm of the same match each), so two of them stand for the five
CallerContents == {"Accounts", "SignTransaction"}

\* AsyncResponseContent variants and the payloads a browser may put in them
AsyncResponseContent == {"Accounts", "MessageSignature", "TransactionSignature", "Error"}
Payloads == {"p", "q"}

\* the response variants of WSReply
ReplyTypes == {"Init"} \cup AsyncResponseContent

\* InitStatus
InitNone       == [tag |-> "None", id |-> NoId]
InitPending(i) == [tag |-> "Pending", id |-> i]
InitDone       == [tag |-> "Done", id |-> NoId]

VARIABLES
    client,               \* CommServer.client (NoClient or a session)
    init_status,          \* CommServer.init_status
    is_handling_request,  \* CommServer.is_handling_request
    pending_messages,     \* CommServer.pending_messages: Seq of [id, content]
    connects,             \* number of Connect messages handled so far
    sess,                 \* lifecycle of each session as the broker sees it
    effects,              \* what the last handler sent, in program order
    emitted,              \* history: [client, id] of the non-Init requests sent
    forwarded,            \* history: ids of the AsyncResponses sent to the server
    enqueued,             \* history: ids of the AsyncRequests received
    replies,              \* number of response frames handled so far
    after_disconnect      \* the attached client connected after some Disconnect

\* the server facade (http/mod.rs): its calls, and what it shares with the broker
VARIABLES
    calls,                \* the wait_for_reply calls: where each stands, and its locals
    mutex,                \* Server.comm_receiver's Mutex: the call that holds it, or NoCall
    chan,                 \* the mpsc channel from the broker to the facade
    comm_alive            \* the broker actor (and with it the channel's Sender) exists

bvars == <<client, init_status, is_handling_request, pending_messages, connects, sess,
           effects, emitted, forwarded, enqueued, replies, after_disconnect>>
fvars == <<calls, mutex, chan, comm_alive>>

\* the wallet hook of the browser side (ethereum-provider/src/yew.rs) and the wallet
VARIABLES
    requires_chain_info,  \* ProviderStatus.requires_chain_info: NoChain or the chain
    signal,               \* the mpsc::channel(1) made by change_chain
    change,               \* the change_chain call: where it stands, chain, result
    provide,              \* the provide_chain_info call: where it stands, chain, result
    wallet_chains,        \* the chains the wallet knows
    wallet_chain,         \* the wallet's active chain
    rpc_log               \* the requests made to the wallet, with their outcome

pvars == <<requires_chain_info, signal, change, provide, wallet_chains, wallet_chain,
           rpc_log>>

\* the websocket sessions (http/session.rs) and the browser tabs behind them
VARIABLES
    flow,                 \* the WSFlow actor of each session
    inbox,                \* the WSRequests the broker sent each session, not yet handled
    peer                  \* the tab behind each session: "answering" or "silent"

svars == <<flow, inbox, peer>>

\* the http server (http/mod.rs, http/routes.rs) and the log of the process
VARIABLES
    nonce,                \* Server.nonce, NoNonce while no Server exists
    log,                  \* the log records emitted so far
    response,             \* the last response to a GET /, and the browser it went to
    admitted              \* the browsers that were served the index page

hvars == <<nonce, log, response, admitted>>

\* the front-end in the browser tab (ethers-signers-browser-frontend/src/main.rs)
VARIABLES
    use_provider,         \* the value of the use_provider hook in App
    tasks,                \* the futures handle_request spawned, one per request frame
    websocket,            \* the holder of the Mutex<WebsocketService>, NoTask if free
    tx                    \* the responses given to WebsocketService::send, in order

tvars == <<use_provider, tasks, websocket, tx>>

\* what the broker and the facade never touch
xvars == <<pvars, svars, hvars, tvars>>

vars == <<bvars, fvars, xvars>>

\* ------------------------------------------------------------ the messages
\* WSRequest sent to a session
WSRequest(to, type, id, data) ==
    [dst |-> "client", to |-> to, type |-> type, id |-> id, data |-> data]

\* AsyncResponse sent on the mpsc channel to the server
AsyncResponse(id, type, data) ==
    [dst |-> "server", to |-> NoClient, type |-> type, id |-> id, data |-> data]

\* the broker's own state, threaded through the nested calls of a handler
Cur ==
    [client |-> client, init_status |-> init_status,
     is_handling_request |-> is_handling_request,
     pending_messages |-> pending_messages, eff |-> <<>>]

\* ------------------------------------------------------ CommServer methods
\* gen_id draws 16 random alphanumerics; the model hands out ids that were never
\* used before.  The broker's ids (Init) and the facade's ids (requests) come from
\* two generators, kept apart here by InitIdBase.
InitIdBase == 10
gen_id == InitIdBase + connects + 1

\* Server::gen_id, the id wait_for_reply gives to its AsyncRequest
server_gen_id == Len(enqueued) + 1

\* faulty variant: any session counts as the attached client once one is attached
is_same_client_any(st, addr) == st.client # NoClient

is_same_client(st, addr) == st.client # NoClient /\ st.client = addr

is_client_init(st) == st.init_status = InitDone

has_ready_client(st) == st.client # NoClient /\ is_client_init(st)

kick_client(st, c, reason) ==
    [st EXCEPT !.eff = Append(@, WSRequest(c, "Close", NoId, reason))]

\* faulty variant: the handshake status outlives the client
cleanup_client_keep_init(st) ==
    [st EXCEPT !.client = NoClient, !.is_handling_request = FALSE]

cleanup_client(st) ==
    [st EXCEPT !.client = NoClient, !.init_status = InitNone,
               !.is_handling_request = FALSE]

\* faulty variant: the attached client is sent Close but stays attached
kick_current_client_no_cleanup(st, reason) ==
    IF st.client # NoClient
    THEN kick_client(st, st.client, reason)
    ELSE st

kick_current_client(st, reason) ==
    IF st.client # NoClient
    THEN cleanup_client(kick_client(st, st.client, reason))
    ELSE st

\* the match of send_pending_message: AsyncRequestContent -> WSRequest variant
ToWSRequest(to, msg) ==
    CASE msg.content = "Accounts"          -> WSRequest(to, "Accounts", msg.id, "")
      [] msg.content = "SignTextMessage"   -> WSRequest(to, "SignTextMessage", msg.id, "")
      [] msg.content = "SignBinaryMessage" -> WSRequest(to, "SignBinaryMessage", msg.id, "")
      [] msg.content = "SignTransaction"   -> WSRequest(to, "SignTransaction", msg.id, "")
      [] msg.content = "SignTypedData"     -> WSRequest(to, "SignTypedData", msg.id, "")

\* faulty variant: the pump takes the newest request instead of the head of the queue
send_pending_message_last(st) ==
    IF st.is_handling_request \/ ~has_ready_client(st)
    THEN st
    ELSE IF st.pending_messages # <<>>
         THEN [st EXCEPT !.is_handling_request = TRUE,
                         !.eff = Append(@, ToWSRequest(st.client,
                                     st.pending_messages[Len(st.pending_messages)]))]
         ELSE st

send_pending_message(st) ==
    IF st.is_handling_request \/ ~has_ready_client(st)
    THEN st
    ELSE IF st.pending_messages # <<>>
         THEN [st EXCEPT !.is_handling_request = TRUE,
                         !.eff = Append(@, ToWSRequest(st.client, Head(st.pending_messages)))]
         ELSE st

\* faulty variant: the init id is not compared
handle_init_any_id(st, id) ==
    IF st.init_status.tag = "Pending"
    THEN send_pending_message([st EXCEPT !.init_status = InitDone])
    ELSE kick_current_client(st, "init already done")

handle_init(st, id) ==
    IF st.init_status.tag = "Pending"
    THEN IF st.init_status.id # id
         THEN kick_current_client(st, "invalid id on init")
         ELSE send_pending_message([st EXCEPT !.init_status = InitDone])
    ELSE kick_current_client(st, "init already done")

send_server_reply(st, reply) ==
    [st EXCEPT !.eff = Append(@, reply)]

\* faulty variant: the answered request is popped but its response is not forwarded
handle_response_no_forward(st, id, type, data) ==
    IF ~is_client_init(st)
    THEN IF st.init_status.tag = "Pending"
         THEN IF st.init_status.id # id
              THEN kick_current_client(st, "invalid id on init")
              ELSE LET st1 == IF type = "Error" /\ st.pending_messages # <<>>
                              THEN send_server_reply(st,
                                       AsyncResponse(Head(st.pending_messages).id, type, data))
                              ELSE st
                   IN  kick_current_client(st1, "failed init")
         ELSE kick_current_client(st, "wrong init status")
    ELSE LET st1 == IF st.pending_messages # <<>>
                    THEN IF Head(st.pending_messages).id # id
                         THEN st
                         ELSE [st EXCEPT !.pending_messages = Tail(@)]
                    ELSE st
         IN  send_pending_message([st1 EXCEPT !.is_handling_request = FALSE])

\* faulty variant: the error of a failed init is forwarded under the init id, not under
\* the id of the waiting request
handle_response_init_id(st, id, type, data) ==
    IF ~is_client_init(st)
    THEN IF st.init_status.tag = "Pending"
         THEN IF st.init_status.id # id
              THEN kick_current_client(st, "invalid id on init")
              ELSE LET st1 == IF type = "Error" /\ st.pending_messages # <<>>
                              THEN send_server_reply(st, AsyncResponse(id, type, data))
                              ELSE st
                   IN  kick_current_client(st1, "failed init")
         ELSE kick_current_client(st, "wrong init status")
    ELSE LET st1 == IF st.pending_messages # <<>>
                    THEN IF Head(st.pending_messages).id # id
                         THEN st
                         ELSE send_server_reply(
                                  [st EXCEPT !.pending_messages = Tail(@)],
                                  AsyncResponse(id, type, data))
                    ELSE st
         IN  send_pending_message([st1 EXCEPT !.is_handling_request = FALSE])

\* faulty variant: with init Done the head of the queue is answered by any id
handle_response_pop_any(st, id, type, data) ==
    IF ~is_client_init(st)
    THEN IF st.init_status.tag = "Pending"
         THEN IF st.init_status.id # id
              THEN kick_current_client(st, "invalid id on init")
              ELSE LET st1 == IF type = "Error" /\ st.pending_messages # <<>>
                              THEN send_server_reply(st,
                                       AsyncResponse(Head(st.pending_messages).id, type, data))
                              ELSE st
                   IN  kick_current_client(st1, "failed init")
         ELSE kick_current_client(st, "wrong init status")
    ELSE LET st1 == IF st.pending_messages # <<>>
                    THEN send_server_reply(
                             [st EXCEPT !.pending_messages = Tail(@)],
                             AsyncResponse(id, type, data))
                    ELSE st
         IN  send_pending_message([st1 EXCEPT !.is_handling_request = FALSE])

handle_response(st, id, type, data) ==
    IF ~is_client_init(st)
    THEN IF st.init_status.tag = "Pending"
         THEN IF st.init_status.id # id
              THEN kick_current_client(st, "invalid id on init")
              ELSE LET st1 == IF type = "Error" /\ st.pending_messages # <<>>
                              THEN send_server_reply(st,
                                       AsyncResponse(Head(st.pending_messages).id, type, data))
                              ELSE st
                   IN  kick_current_client(st1, "failed init")
         ELSE kick_current_client(st, "wrong init status")
    ELSE LET st1 == IF st.pending_messages # <<>>
                    THEN IF Head(st.pending_messages).id # id
                         THEN st
                         ELSE send_server_reply(
                                  [st EXCEPT !.pending_messages = Tail(@)],
                                  AsyncResponse(id, type, data))
                    ELSE st
         IN  send_pending_message([st1 EXCEPT !.is_handling_request = FALSE])

queue_pending_message(st, msg) ==
    send_pending_message([st EXCEPT !.pending_messages = Append(@, msg)])

\* Handler<WSReply>::handle
\* faulty variant: a Connect is ignored while a client is attached
WSReplyConnect_keep_first(st, c) ==
    IF st.client # NoClient
    THEN st
    ELSE [st EXCEPT !.client = c,
                    !.init_status = InitPending(gen_id),
                    !.eff = Append(@, WSRequest(c, "Init", gen_id, ""))]

\* faulty variant: a Connect kicks the client it displaces
WSReplyConnect_kick_previous(st, c) ==
    LET k == kick_current_client(st, "replaced by a new client")
    IN  [k EXCEPT !.client = c,
                  !.init_status = InitPending(gen_id),
                  !.eff = Append(@, WSRequest(c, "Init", gen_id, ""))]

WSReplyConnect(st, c) ==
    [st EXCEPT !.client = c,
               !.init_status = InitPending(gen_id),
               !.eff = Append(@, WSRequest(c, "Init", gen_id, ""))]

\* faulty variant: the Disconnect of any session detaches the client
WSReplyDisconnect_any_client(st, c) == cleanup_client(st)

WSReplyDisconnect(st, c) ==
    IF ~is_same_client(st, c) THEN st ELSE cleanup_client(st)

WSReplyResponse(st, c, type, id, data) ==
    IF ~is_same_client(st, c)
    THEN kick_client(st, c, "invalid client")
    ELSE IF type = "Init"
         THEN handle_init(st, id)
         ELSE handle_response(st, id, type, data)

\* ------------------------------------------------------- the server facade
Calls  == 1..MaxRequests  \* every call submits one AsyncRequest
NoCall == 0

\* Duration, counted in turns of the polling loop (each turn sleeps 100 ms)
Duration(n) == [max |-> FALSE, ticks |-> n]
TIMEOUT     == [max |-> TRUE, ticks |-> 0]  \* Duration::MAX, used by every public operation

\* Result<U, ServerError>
NoResult             == [tag |-> "None", val |-> ""]
Ok(v)                == [tag |-> "Ok", val |-> v]
ServerErrorComm(t)   == [tag |-> "Comm", val |-> t]
ServerErrorClient(t) == [tag |-> "Client", val |-> t]

IdleCall ==
    [pc |-> "idle", id |-> NoId, op |-> "", timeout |-> TIMEOUT, elapsed |-> 0,
     result |-> NoResult]

\* the variant the pred of each public operation accepts
Expected(op) ==
    CASE op = "Accounts"          -> "Accounts"
      [] op = "SignTextMessage"   -> "MessageSignature"
      [] op = "SignBinaryMessage" -> "MessageSignature"
      [] op = "SignTransaction"   -> "TransactionSignature"
      [] op = "SignTypedData"     -> "MessageSignature"

\* faulty variant: an Error response is reported as a comm error
reply_result_no_client_error(op, res) ==
    IF res.type = Expected(op) THEN Ok(res.data)
    ELSE ServerErrorComm("unexpected response")

\* wait_for_reply, the match on a response that carries the call's id
reply_result(op, res) ==
    IF res.type = Expected(op)
    THEN Ok(res.data)
    ELSE IF res.type = "Error"
         THEN ServerErrorClient(res.data)
         ELSE ServerErrorComm("unexpected response")

\* the condition of wait_for_reply's loop (every turn of the loop sleeps)
InTime(call) == call.timeout.max \/ call.elapsed < call.timeout.ticks

\* one more turn of the loop; time is only counted against a finite timeout
Slept(call) ==
    IF call.timeout.max THEN call ELSE [call EXCEPT !.elapsed = @ + 1]

\* wait_for_reply returns: the guard of the mutex is dropped
Return(c, result) ==
    /\ calls' = [calls EXCEPT ![c].pc = "done", ![c].result = result]
    /\ mutex' = NoCall

\* ------------------------------------------------ the sessions (session.rs)
HEARTBEAT_INTERVAL == 10  \* seconds
CLIENT_TIMEOUT     == 30  \* seconds

\* the longest a session can have gone without a heartbeat when an interval fires:
\* time since last_heartbeat is not counted beyond the interval after the timeout
MaxAge == CLIENT_TIMEOUT + HEARTBEAT_INTERVAL

NoFrame == [type |-> "", id |-> NoId]

\* WSFlow: state is "new" (not started), "open" or "stopped"; age is the time since
\* last_heartbeat; pinged: a ping awaits its pong; close: the description of the
\* close frame sent; why: what stopped the actor; frame: the last text frame sent
\* to the tab
NewFlow ==
    [state |-> "new", age |-> 0, pinged |-> FALSE, close |-> "", why |-> "",
     frame |-> NoFrame]

\* ctx.stop(): of a stopped actor only the close frame it sent and what stopped it
\* are kept
Stopped(description, why) ==
    [NewFlow EXCEPT !.state = "stopped", !.close = description, !.why = why]

\* the WSRequests to session s among the messages a handler sent
ToSession(eff, s) ==
    LET Mine(e) == e.dst = "client" /\ e.to = s
    IN  SelectSeq(eff, Mine)

\* faulty variant: every close frame carries the description for the user
close_user_reason(f, reason, user_reason) ==
    Stopped("internal error (client)", "close")

\* faulty variant: the close frame is sent, the actor is not stopped
close_no_stop(f, reason, user_reason) ==
    [f EXCEPT !.close = IF user_reason # "" THEN user_reason ELSE reason]

\* WSFlow::close: a close frame with user_reason, or reason if there is none; stop
close(f, reason, user_reason) ==
    Stopped(IF user_reason # "" THEN user_reason ELSE reason, "close")

\* faulty variant: Close is serialised and sent to the tab like any other request
HandleWSRequest_close_as_frame(f, msg, serialize) ==
    IF serialize
    THEN [f EXCEPT !.frame = [type |-> msg.type, id |-> msg.id]]
    ELSE close(f, "error forwarding message", "internal error (client)")

\* Handler<WSRequest>::handle with forward_to_client: Close{reason} closes with the
\* reason, every other request goes to the tab as a text frame (serialize = FALSE:
\* serde_json::to_string failed)
HandleWSRequest(f, msg, serialize) ==
    IF msg.type = "Close"
    THEN close(f, msg.data, "")
    ELSE IF serialize
         THEN [f EXCEPT !.frame = [type |-> msg.type, id |-> msg.id]]
         ELSE close(f, "error forwarding message", "internal error (client)")

\* faulty variant: the heartbeat pings and never stops the actor
heartbeat_never_stops(f) == [f EXCEPT !.pinged = TRUE]

\* the callback of the heartbeat interval
heartbeat(f) ==
    IF f.age > CLIENT_TIMEOUT
    THEN Stopped("", "heartbeat")
    ELSE [f EXCEPT !.pinged = TRUE]

\* ------------------------------------------------ the http routes (routes.rs)
Nonces  == 1..NumNonces
NoNonce == 0              \* no Server, no nonce
NoQuery == 0              \* a request without the nonce parameter

\* the files embedded at build time (build.rs): the frontend and its index.html
Asset == {"index.html"}

NoResponse    == [to |-> NoClient, status |-> 0, body |-> ""]
HttpOk(body)  == [to |-> NoClient, status |-> 200, body |-> body]
NotFound      == [to |-> NoClient, status |-> 404, body |-> "404 Not Found"]
\* what actix-web answers when an extractor of the handler fails
BadRequest    == [to |-> NoClient, status |-> 400, body |-> "Query deserialize error"]

handle_embedded_file(path) ==
    IF path \in Asset THEN HttpOk(path) ELSE NotFound

\* faulty variant: the index page is served whatever the nonce of the request
index_any_nonce(query, server_nonce) ==
    IF query = NoQuery THEN BadRequest ELSE handle_embedded_file("index.html")

\* GET /: web::Query<IndexQuery> needs the nonce parameter; the handler compares it
\* with the nonce of the Server
index(query, server_nonce) ==
    IF query = NoQuery
    THEN BadRequest
    ELSE IF query # server_nonce
         THEN NotFound
         ELSE handle_embedded_file("index.html")

\* the url of the entry page and a log record (level, format string, the url among
\* its arguments, if any)
Url(n) == [path |-> "/", nonce |-> n]
NoUrl  == [path |-> "", nonce |-> NoNonce]
LogRecord(level, text, url) == [level |-> level, text |-> text, url |-> url]

\* ------------------------------------------------- the wallet hook (yew.rs)
Chains  == 1..NumChains
NoChain == 0              \* Option<(u64, Sender)>::None

\* Result<(), ProviderError>
ProviderError(kind) == [tag |-> "Err", val |-> kind]
IdleChange == [pc |-> "idle", chain |-> NoChain, first |-> 0, result |-> NoResult]

\* a request to the wallet and how it ended
Rpc(method, chain, ok) == [method |-> method, chain |-> chain, ok |-> ok]

\* ------------------------------------------------------------- the actions
IsRequest(e) == e.dst = "client" /\ e.type \notin {"Init", "Close"}
IsForward(e) == e.dst = "server"

RECURSIVE Requests(_)
Requests(s) ==
    IF s = <<>> THEN <<>>
    ELSE IF IsRequest(Head(s))
         THEN <<[client |-> Head(s).to, id |-> Head(s).id]>> \o Requests(Tail(s))
         ELSE Requests(Tail(s))

RECURSIVE Forwards(_)
Forwards(s) ==
    IF s = <<>> THEN <<>>
    ELSE IF IsForward(Head(s))
         THEN <<Head(s).id>> \o Forwards(Tail(s))
         ELSE Forwards(Tail(s))

\* the handler's result becomes the broker's state; the histories grow
Commit(st) ==
    /\ client' = st.client
    /\ init_status' = st.init_status
    /\ is_handling_request' = st.is_handling_request
    /\ pending_messages' = st.pending_messages
    /\ effects' = st.eff
    /\ emitted' = emitted \o Requests(st.eff)
    /\ forwarded' = forwarded \o Forwards(st.eff)

\* Handler<AsyncRequest>::handle, with the id the facade generated
HandleAsyncRequest(content) ==
    /\ Len(enqueued) < MaxRequests
    /\ Commit(queue_pending_message(Cur, [id |-> server_gen_id, content |-> content]))
    /\ enqueued' = Append(enqueued, server_gen_id)
    /\ UNCHANGED <<connects, sess, replies, after_disconnect>>

\* WSReply::Connect: a session starts (sessions are numbered in the order they start)
HandleConnect(s) ==
    /\ sess[s] = "new"
    /\ \A t \in Sessions : t < s => sess[t] # "new"
    /\ Commit(WSReplyConnect(Cur, s))
    /\ connects' = connects + 1
    /\ sess' = [sess EXCEPT ![s] = "open"]
    /\ after_disconnect' = (\E t \in Sessions : sess[t] = "gone")
    /\ UNCHANGED <<enqueued, replies>>

\* WSReply::Disconnect: a session stops
HandleDisconnect(s) ==
    /\ sess[s] = "open"
    /\ Commit(WSReplyDisconnect(Cur, s))
    /\ sess' = [sess EXCEPT ![s] = "gone"]
    /\ UNCHANGED <<connects, enqueued, replies, after_disconnect>>

\* WSReply::{Init, Accounts, MessageSignature, TransactionSignature, Error}
HandleReply(s, type, id, data) ==
    /\ sess[s] = "open"
    /\ replies < MaxReplies
    /\ Commit(WSReplyResponse(Cur, s, type, id, data))
    /\ replies' = replies + 1
    /\ UNCHANGED <<connects, sess, enqueued, after_disconnect>>

\* Server::new: no call yet, the mutex free, the channel empty
FacadeInit ==
    /\ calls = [c \in Calls |-> IdleCall]
    /\ mutex = NoCall
    /\ chan = <<>>
    /\ comm_alive = TRUE

\* use_provider: nothing required, no call yet; the wallet knows its active chain
ProviderInit ==
    /\ requires_chain_info = NoChain
    /\ signal = "none"
    /\ change = IdleChange
    /\ provide = IdleChange
    /\ wallet_chains = {1}
    /\ wallet_chain = 1
    /\ rpc_log = <<>>

\* no session yet
SessionInit ==
    /\ flow = [s \in Sessions |-> NewFlow]
    /\ inbox = [s \in Sessions |-> <<>>]
    /\ peer = [s \in Sessions |-> "answering"]

\* no Server yet: nothing logged, nothing served
HttpInit ==
    /\ nonce = NoNonce
    /\ log = {}
    /\ response = NoResponse
    /\ admitted = {}

\* no future holds the Mutex<WebsocketService>
NoTask == 0

\* App before its first effect ran: no provider yet, nothing received
FrontendInit ==
    /\ use_provider = "None"
    /\ tasks = <<>>
    /\ websocket = NoTask
    /\ tx = <<>>

Init ==
    /\ FacadeInit
    /\ ProviderInit
    /\ SessionInit
    /\ HttpInit
    /\ FrontendInit
    /\ client = NoClient
    /\ init_status = InitNone
    /\ is_handling_request = FALSE
    /\ pending_messages = <<>>
    /\ connects = 0
    /\ sess = [s \in Sessions |-> "new"]
    /\ effects = <<>>
    /\ emitted = <<>>
    /\ forwarded = <<>>
    /\ enqueued = <<>>
    /\ replies = 0
    /\ after_disconnect = FALSE

\* The ids a session may answer with.  The broker only compares a reply's id with
\* the pending init id and with the id at the head of the queue, so one id of each
\* kind is drawn, and one that matches neither: the id answered last (a late
\* duplicate) or, before any answer, an id nobody generated.
ReplyIds ==
    {IF forwarded # <<>> THEN forwarded[Len(forwarded)] ELSE NoId}
        \cup (IF init_status.tag = "Pending" THEN {init_status.id} ELSE {})
        \cup (IF pending_messages # <<>> THEN {Head(pending_messages).id} ELSE {})

\* the payload a reply of each variant may carry
ReplyData(type) ==
    IF type = "Init" THEN {""} ELSE IF type = "Error" THEN Payloads ELSE {"p"}

\* the broker alone: the facade is its environment and is left out
BrokerOnly == UNCHANGED <<fvars, xvars>>

AsyncRequestStep ==
    \E content \in CallerContents : HandleAsyncRequest(content) /\ BrokerOnly
ConnectStep      == \E s \in Sessions : HandleConnect(s) /\ BrokerOnly
DisconnectStep   == \E s \in Sessions : HandleDisconnect(s) /\ BrokerOnly
ReplyStep ==
    \E s \in Sessions, type \in ReplyTypes, id \in ReplyIds :
        \E data \in ReplyData(type) :
            HandleReply(s, type, id, data) /\ BrokerOnly

Next == AsyncRequestStep \/ ConnectStep \/ DisconnectStep \/ ReplyStep

Spec == Init /\ [][Next]_vars

\* ------------------------------------------- the facade and the broker together
\* the AsyncResponses among the messages a handler sent, as the channel carries them
ToChannel(eff) ==
    [i \in 1..Len(SelectSeq(eff, IsForward)) |->
        [id   |-> SelectSeq(eff, IsForward)[i].id,
         type |-> SelectSeq(eff, IsForward)[i].type,
         data |-> SelectSeq(eff, IsForward)[i].data]]

\* wait_for_reply up to `self.comm.send(req).await`: the id is generated and the
\* AsyncRequest is handled by the broker (calls are numbered in the order they start);
\* with the broker gone the send fails
WaitForReplySend(c, op, timeout) ==
    /\ calls[c].pc = "idle"
    /\ \A d \in Calls : d < c => calls[d].pc # "idle"
    /\ IF comm_alive
       THEN /\ HandleAsyncRequest(op)
            /\ calls' = [calls EXCEPT ![c] = [IdleCall EXCEPT !.pc = "awaiting",
                                                              !.id = server_gen_id,
                                                              !.op = op,
                                                              !.timeout = timeout]]
       ELSE /\ calls' = [calls EXCEPT ![c] = [IdleCall EXCEPT
                                                 !.pc = "done",
                                                 !.op = op,
                                                 !.result = ServerErrorComm("internal error")]]
            /\ UNCHANGED bvars
    /\ UNCHANGED <<mutex, chan, comm_alive>>
    /\ UNCHANGED xvars

\* the caller drops the future of the call: only possible where the call awaits
Abandon(c) ==
    /\ calls[c].pc = "awaiting"
    /\ calls' = [calls EXCEPT ![c].pc = "dropped"]
    /\ UNCHANGED <<bvars, mutex, chan, comm_alive>>
    /\ UNCHANGED xvars

\* `self.comm_receiver.lock()`: blocks until the mutex is free
WaitForReplyLock(c) ==
    /\ calls[c].pc = "awaiting"
    /\ mutex = NoCall
    /\ mutex' = c
    /\ calls' = [calls EXCEPT ![c].pc = "polling"]
    /\ UNCHANGED <<bvars, chan, comm_alive>>
    /\ UNCHANGED xvars

\* faulty variant: the first response on the channel is taken for the call's own
WaitForReplyPoll_any_id(c) ==
    /\ calls[c].pc = "polling"
    /\ IF ~InTime(calls[c])
       THEN /\ Return(c, ServerErrorComm("timeout"))
            /\ UNCHANGED chan
       ELSE IF chan # <<>>
            THEN /\ chan' = Tail(chan)
                 /\ Return(c, reply_result(calls[c].op, Head(chan)))
            ELSE IF comm_alive
                 THEN /\ calls' = [calls EXCEPT ![c] = Slept(@)]
                      /\ UNCHANGED <<mutex, chan>>
                 ELSE /\ Return(c, ServerErrorComm("disconnected"))
                      /\ UNCHANGED chan
    /\ UNCHANGED <<bvars, comm_alive>>
    /\ UNCHANGED xvars

\* one turn of the loop of wait_for_reply: the loop condition, try_recv, the match
WaitForReplyPoll(c) ==
    /\ calls[c].pc = "polling"
    /\ IF ~InTime(calls[c])
       THEN /\ Return(c, ServerErrorComm("timeout"))
            /\ UNCHANGED chan
       ELSE IF chan # <<>>
            THEN /\ chan' = Tail(chan)
                 /\ IF Head(chan).id = calls[c].id
                    THEN Return(c, reply_result(calls[c].op, Head(chan)))
                    ELSE /\ calls' = [calls EXCEPT ![c] = Slept(@)]
                         /\ UNCHANGED mutex
            ELSE IF comm_alive
                 THEN /\ calls' = [calls EXCEPT ![c] = Slept(@)]
                      /\ UNCHANGED <<mutex, chan>>
                 ELSE /\ Return(c, ServerErrorComm("disconnected"))
                      /\ UNCHANGED chan
    /\ UNCHANGED <<bvars, comm_alive>>
    /\ UNCHANGED xvars

\* a response frame is handled by the broker; what it sends to the server is on the
\* channel when the handler returns
FacadeReply(s, type, id, data) ==
    /\ HandleReply(s, type, id, data)
    /\ chan' = chan \o ToChannel(effects')
    /\ UNCHANGED <<calls, mutex, comm_alive>>
    /\ UNCHANGED xvars

CallStep ==
    \E c \in Calls, op \in CallerContents : WaitForReplySend(c, op, TIMEOUT)
AbandonStep == \E c \in Calls : Abandon(c)
LockStep    == \E c \in Calls : WaitForReplyLock(c)
PollStep    == \E c \in Calls : WaitForReplyPoll(c)
\* only the attached client's frames are drawn here: a frame of any other session
\* gets that session a Close and nothing else
FacadeReplyTypes == {"Init", "Error"} \cup {Expected(op) : op \in CallerContents}
FacadeReplyStep ==
    \E type \in FacadeReplyTypes, id \in ReplyIds :
        \E data \in ReplyData(type) :
            client # NoClient /\ FacadeReply(client, type, id, data)

\* one browser tab at a time: a session connects when no client is attached, and a
\* tab is only lost by being kicked
FacadeConnectStep == client = NoClient /\ ConnectStep

FacadeNext ==
    \/ CallStep \/ AbandonStep \/ LockStep \/ PollStep
    \/ FacadeConnectStep \/ FacadeReplyStep

SpecFacade == Init /\ [][FacadeNext]_vars

\* ------------------------------------------------- vocabulary of the claims
BrokerState == <<client, init_status, is_handling_request, pending_messages>>
BrokerOf(st) == <<st.client, st.init_status, st.is_handling_request, st.pending_messages>>

EmittedIds == [i \in 1..Len(emitted) |-> emitted[i].id]
QueueIds   == {pending_messages[i].id : i \in 1..Len(pending_messages)}

Count(seq, x) == Cardinality({i \in 1..Len(seq) : seq[i] = x})

\* a sequence without the immediate repetitions of an element
RECURSIVE Collapse(_)
Collapse(seq) ==
    IF Len(seq) <= 1 THEN seq
    ELSE IF seq[1] = seq[2] THEN Collapse(Tail(seq))
         ELSE <<seq[1]>> \o Collapse(Tail(seq))

\* the Close messages among the effects of the last handler
Closes(eff) == {i \in 1..Len(eff) : eff[i].dst = "client" /\ eff[i].type = "Close"}

\* the enqueued ids, without those still waiting in the queue that no session was sent
NotWaitingUnsent(id) ==
    id \notin QueueIds \/ \E i \in 1..Len(emitted) : emitted[i].id = id
Restricted == SelectSeq(enqueued, NotWaitingUnsent)

\* the last request sent to session s before this step (NoId if none)
LastEmittedTo(s) ==
    LET I == {i \in 1..Len(emitted) : emitted[i].client = s}
    IN  IF I = {} THEN NoId ELSE emitted[CHOOSE i \in I : \A j \in I : j <= i].id

\* ------------------------------------------------------------------ claims

\* C1: after every handler, is_handling_request implies init_status = Done, a
\* non-empty queue and an attached client.
C1_InFlightImpliesReady ==
    is_handling_request =>
        (init_status = InitDone /\ pending_messages # <<>> /\ client # NoClient)

\* C2: a session is sent a request with an id other than the id of the request it
\* was sent before only after a response with that earlier id went to the caller
\* channel (earlier, or earlier in the same handler).
C2_SequentialRequests ==
    [][\A i \in 1..Len(effects') :
          (/\ IsRequest(effects'[i])
           /\ LastEmittedTo(effects'[i].to) # NoId
           /\ LastEmittedTo(effects'[i].to) # effects'[i].id)
          => \/ Count(forwarded, LastEmittedTo(effects'[i].to)) > 0
             \/ \E j \in 1..(i - 1) :
                    /\ IsForward(effects'[j])
                    /\ effects'[j].id = LastEmittedTo(effects'[i].to)]_vars

\* C2 witness: a session was sent two requests with different ids in a row.
C2_Witness ==
    \E i \in 1..(Len(emitted) - 1) :
        /\ emitted[i].client = emitted[i + 1].client
        /\ emitted[i].id # emitted[i + 1].id

\* C3 as stated: the ids sent to the sessions are, in order and without
\* repetition, the enqueued ids that no longer wait unsent in the queue.
C3_EmittedEqualsEnqueued == EmittedIds = Restricted

\* C3 amended: the same once immediate re-sends of one id are counted once.
C3_EmittedCollapsedEqualsEnqueued == Collapse(EmittedIds) = Restricted

\* C3 witness: two different ids were sent and one of them was sent again.
C3_Witness ==
    /\ Len(Collapse(EmittedIds)) = 2
    /\ Len(EmittedIds) > 2

\* C4: no emitted request id has more than one AsyncResponse forwarded to the
\* caller channel (the safety half of "exactly one").
C4_AtMostOneForward ==
    \A i \in 1..Len(emitted) : Count(forwarded, emitted[i].id) <= 1

\* C5: a Disconnect leaves the queue as it was, and when a client that connected
\* after a Disconnect completes the Init handshake the request at the head of the
\* queue is sent to it.
C5_ResumeAfterDisconnect ==
    [][/\ (\E s \in Sessions : HandleDisconnect(s))
            => pending_messages' = pending_messages
       /\ (/\ after_disconnect
           /\ init_status.tag = "Pending"
           /\ init_status' = InitDone
           /\ pending_messages # <<>>)
            => \E i \in 1..Len(effects') :
                   /\ IsRequest(effects'[i])
                   /\ effects'[i].to = client'
                   /\ effects'[i].id = Head(pending_messages).id]_vars

\* C6 as stated: a Connect while a client is attached leaves that client attached.
C6_FirstToConnectWins ==
    [][\A s \in Sessions :
          (client # NoClient /\ HandleConnect(s)) => client' = client]_vars

\* C6 amended: a Connect while a client is attached makes the new session the
\* client, with init Pending on a fresh id; the new session is sent Init and the
\* session it displaces is sent nothing.
C6_SecondConnectDisplaces ==
    [][\A s \in Sessions :
          (client # NoClient /\ HandleConnect(s))
          => /\ client' = s
             /\ client' # client
             /\ init_status' = InitPending(gen_id)
             /\ effects' = <<WSRequest(s, "Init", gen_id, "")>>]_vars

\* C6 witness: a second session connected while the first had a request in flight.
C6_Witness ==
    /\ client = 2
    /\ sess[1] = "open"
    /\ init_status.tag = "Pending"
    /\ is_handling_request

\* C7: a response of any variant from a session that is not the attached client
\* gets that session Close("invalid client"), forwards nothing and leaves client,
\* init_status, is_handling_request and the queue as they were: in every state,
\* that is what the handler makes of every such response.
C7_ForeignReplyKicked ==
    [](
      \A s \in Sessions, type \in ReplyTypes, id \in ReplyIds :
          \A data \in ReplyData(type) :
              (sess[s] = "open" /\ s # client)
              => LET st == WSReplyResponse(Cur, s, type, id, data)
                 IN  /\ st.eff = <<WSRequest(s, "Close", NoId, "invalid client")>>
                     /\ Forwards(st.eff) = <<>>
                     /\ BrokerOf(st) = BrokerState
      )

\* C7 witness: a session other than the attached, ready client was just kicked as
\* an invalid client while a request was in flight.
C7_Witness ==
    /\ client # NoClient
    /\ is_handling_request
    /\ \E s \in Sessions \ {client} :
           effects = <<WSRequest(s, "Close", NoId, "invalid client")>>

\* C8: while init is Pending{expected}, a response of the attached client with
\* another id, or with that id and a content that is neither Init nor Error, gets
\* the client kicked and init None, client None, is_handling_request false; an
\* Init response with the expected id sets init Done and kicks nobody.
C8_PendingInit ==
    \A type \in ReplyTypes, id \in ReplyIds :
        \A data \in ReplyData(type) :
            (init_status.tag = "Pending" /\ client # NoClient)
            => LET st == WSReplyResponse(Cur, client, type, id, data)
               IN  /\ (id # init_status.id \/ type \notin {"Init", "Error"})
                        => /\ \E i \in Closes(st.eff) : st.eff[i].to = client
                           /\ st.init_status = InitNone
                           /\ st.client = NoClient
                           /\ ~st.is_handling_request
                   /\ (id = init_status.id /\ type = "Init")
                        => /\ st.init_status = InitDone
                           /\ Closes(st.eff) = {}
                           /\ st.client = client

\* C8 witness: the attached client was just kicked for a wrong id on init while a
\* request was waiting.
C8_Witness ==
    /\ pending_messages # <<>>
    /\ client = NoClient
    /\ \E s \in Sessions : effects = <<WSRequest(s, "Close", NoId, "invalid id on init")>>

\* C9: while init is Pending{expected}, an Error response with the expected id
\* from the attached client is forwarded once, as Error with the same text under
\* the id of the head of the queue, when the queue is not empty, and not at all
\* when it is empty; then the client is kicked and init is None.
C9_InitErrorForwarded ==
    [][\A s \in Sessions, id \in ReplyIds, data \in ReplyData("Error") :
          (/\ init_status.tag = "Pending"
           /\ s = client
           /\ id = init_status.id
           /\ HandleReply(s, "Error", id, data))
          => /\ pending_messages # <<>>
                  => /\ Len(effects') = 2
                     /\ effects'[1] =
                            AsyncResponse(Head(pending_messages).id, "Error", data)
                     /\ forwarded' = Append(forwarded, Head(pending_messages).id)
             /\ pending_messages = <<>>
                  => /\ Len(effects') = 1
                     /\ forwarded' = forwarded
             /\ effects'[Len(effects')].dst = "client"
             /\ effects'[Len(effects')].type = "Close"
             /\ effects'[Len(effects')].to = s
             /\ client' = NoClient
             /\ init_status' = InitNone]_vars

\* C9 witness: the error of a failed init was forwarded under the id of the
\* waiting request, and the client kicked.
C9_Witness ==
    /\ Len(effects) = 2
    /\ IsForward(effects[1])
    /\ effects[1].type = "Error"
    /\ effects[1].data = "q"
    /\ pending_messages # <<>>
    /\ effects[1].id = Head(pending_messages).id
    /\ effects[2].type = "Close"
    /\ effects[2].data = "failed init"

\* C10: with init Done, a response of the attached client (one of the variants
\* handle_response handles) that does not carry the id of the head of the queue,
\* or finds the queue empty, changes nothing: no kick, nothing forwarded, nothing
\* sent, client, init, is_handling_request and the queue as before.
C10_MismatchIgnored ==
    [][\A type \in AsyncResponseContent, id \in ReplyIds :
          \A data \in ReplyData(type) :
              (/\ init_status = InitDone
               /\ client # NoClient
               /\ (pending_messages = <<>> \/ id # Head(pending_messages).id)
               /\ HandleReply(client, type, id, data))
              => /\ effects' = <<>>
                 /\ forwarded' = forwarded
                 /\ BrokerState' = BrokerState]_vars

\* C11 as stated: whenever the broker handles a response of an open session and
\* sends that session no Close, the response carries the id of the head of the queue.
C11_NotKickedImpliesHeadId ==
    \A s \in Sessions, type \in ReplyTypes, id \in ReplyIds :
        \A data \in ReplyData(type) :
            sess[s] = "open"
            => LET st == WSReplyResponse(Cur, s, type, id, data)
               IN  (\A i \in Closes(st.eff) : st.eff[i].to # s)
                   => (pending_messages # <<>> /\ id = Head(pending_messages).id)

\* C11 amended: a response handled without a Close to its session comes from the
\* attached client and is either the Init with the pending init id, or arrives with
\* init Done; of those, only one carrying the id of the head of the queue pops the
\* queue and is forwarded (as it came), every other leaves the queue alone and
\* forwards nothing.
C11_OnlyHeadIdAccepted ==
    [](
      \A s \in Sessions, type \in ReplyTypes, id \in ReplyIds :
          \A data \in ReplyData(type) :
              sess[s] = "open"
              => LET st == WSReplyResponse(Cur, s, type, id, data)
                     head == pending_messages # <<>> /\ id = Head(pending_messages).id
                 IN  (\A i \in Closes(st.eff) : st.eff[i].to # s)
                     => /\ s = client
                        /\ \/ type = "Init" /\ init_status = InitPending(id)
                           \/ type # "Init" /\ init_status = InitDone
                        /\ (type # "Init" /\ head)
                             => /\ st.pending_messages = Tail(pending_messages)
                                /\ st.eff[1] = AsyncResponse(id, type, data)
                                /\ Len(Forwards(st.eff)) = 1
                        /\ ~(type # "Init" /\ head)
                             => /\ st.pending_messages = pending_messages
                                /\ Forwards(st.eff) = <<>>
      )

\* C11 witness: with two requests queued, the attached client was just answered
\* through: the head was forwarded and popped, nobody was kicked, and an id that is
\* not the new head's is on offer.
C11_Witness ==
    /\ init_status = InitDone
    /\ client # NoClient
    /\ Len(effects) = 2
    /\ IsForward(effects[1])
    /\ IsRequest(effects[2])
    /\ pending_messages # <<>>
    /\ effects[1].id # Head(pending_messages).id
    /\ effects[1].id \in ReplyIds

\* ------------------------------------------- the sessions and the broker together
\* what a handler of the broker sent to the sessions is in their mailboxes when it
\* returns (a message to an actor that is not running is lost)
Mailed ==
    /\ inbox' = [s \in Sessions |->
                    IF flow'[s].state = "open"
                    THEN inbox[s] \o ToSession(effects', s)
                    ELSE <<>>]
    /\ UNCHANGED <<fvars, pvars, hvars, tvars, peer>>

\* a session actor alone: the broker is not involved (once the actor has stopped,
\* its mailbox and its tab are no longer followed)
FlowOnly(s) ==
    /\ inbox' = [inbox EXCEPT ![s] = IF flow'[s].state = "open" THEN @ ELSE <<>>]
    /\ peer' = [peer EXCEPT ![s] = IF flow'[s].state = "open" THEN @ ELSE "answering"]
    /\ UNCHANGED <<bvars, fvars, pvars, hvars, tvars>>

\* WSFlow::new and started: the actor runs, its Connect is handled by the broker
\* (one tab at a time: the sessions before it have stopped)
SessionStart(s) ==
    /\ \A t \in Sessions : flow[t].state # "open"
    /\ HandleConnect(s)
    /\ flow' = [flow EXCEPT ![s] = [NewFlow EXCEPT !.state = "open"]]
    /\ Mailed

\* stopping: the Disconnect of a stopped actor is handled by the broker
SessionDisconnect(s) ==
    /\ flow[s].state = "stopped"
    /\ HandleDisconnect(s)
    /\ UNCHANGED flow
    /\ Mailed

\* a text frame of the tab, parsed by forward_to_server, is handled by the broker
BrowserReply(s, type, id, data) ==
    /\ flow[s].state = "open"
    /\ peer[s] = "answering"
    /\ flow[s].frame # NoFrame
    /\ HandleReply(s, type, id, data)
    /\ UNCHANGED flow
    /\ Mailed

\* a call of the facade is handled by the broker
SessionAsyncRequest(content) ==
    /\ HandleAsyncRequest(content)
    /\ UNCHANGED flow
    /\ Mailed

\* the actor takes the next WSRequest from its mailbox
SessionRequest(s, serialize) ==
    /\ flow[s].state = "open"
    /\ inbox[s] # <<>>
    /\ flow' = [flow EXCEPT ![s] = HandleWSRequest(@, Head(inbox[s]), serialize)]
    /\ inbox' = [inbox EXCEPT ![s] = IF flow'[s].state = "open" THEN Tail(@) ELSE <<>>]
    /\ peer' = [peer EXCEPT ![s] = IF flow'[s].state = "open" THEN @ ELSE "answering"]
    /\ UNCHANGED <<bvars, fvars, pvars, hvars, tvars>>

\* HEARTBEAT_INTERVAL has gone by since the last run of the interval's callback,
\* and the callback runs.  A tab that answers has answered the last ping by then.
Elapsed(f) ==
    [f EXCEPT !.age = IF @ + HEARTBEAT_INTERVAL > MaxAge
                      THEN MaxAge ELSE @ + HEARTBEAT_INTERVAL]

Heartbeat(s) ==
    /\ flow[s].state = "open"
    /\ ~(flow[s].pinged /\ peer[s] = "answering")
    /\ flow' = [flow EXCEPT ![s] = heartbeat(Elapsed(@))]
    /\ FlowOnly(s)

\* StreamHandler: a Pong frame (the answer of the tab to a ping)
Pong(s) ==
    /\ flow[s].state = "open"
    /\ flow[s].pinged
    /\ peer[s] = "answering"
    /\ flow' = [flow EXCEPT ![s].age = 0, ![s].pinged = FALSE]
    /\ FlowOnly(s)

\* StreamHandler: a Ping frame of the tab
Ping(s) ==
    /\ flow[s].state = "open"
    /\ peer[s] = "answering"
    /\ flow[s].age > 0
    /\ flow' = [flow EXCEPT ![s].age = 0]
    /\ FlowOnly(s)

\* StreamHandler: a Close frame of the tab
PeerClose(s) ==
    /\ flow[s].state = "open"
    /\ peer[s] = "answering"
    /\ flow' = [flow EXCEPT ![s] = Stopped("", "peer")]
    /\ FlowOnly(s)

\* the tab stops answering (frozen, or the network is gone) without a Close frame
PeerSilent(s) ==
    /\ flow[s].state = "open"
    /\ peer[s] = "answering"
    /\ peer' = [peer EXCEPT ![s] = "silent"]
    /\ UNCHANGED <<bvars, fvars, pvars, hvars, tvars, flow, inbox>>

\* StreamHandler: a text frame that forward_to_server cannot parse
BadFrame(s) ==
    /\ flow[s].state = "open"
    /\ peer[s] = "answering"
    /\ flow' = [flow EXCEPT ![s] =
                    close(@, "error forwarding message", "internal error (server)")]
    /\ FlowOnly(s)

\* StreamHandler: a frame that is neither Ping, Pong, Text nor Close
Unsupported(s) ==
    /\ flow[s].state = "open"
    /\ peer[s] = "answering"
    /\ flow' = [flow EXCEPT ![s] = close(@, "unsupported message received", "")]
    /\ FlowOnly(s)

SessionStartStep      == \E s \in Sessions : SessionStart(s)
SessionDisconnectStep == \E s \in Sessions : SessionDisconnect(s)
\* the tab answers Init{} or Accounts{..}, under any id; the calls are
\* get_user_addresses; the requests of the broker always serialize
BrowserReplyStep ==
    \E s \in Sessions, type \in {"Init", "Accounts"}, id \in ReplyIds :
        \E data \in ReplyData(type) :
            BrowserReply(s, type, id, data)
SessionAsyncRequestStep == SessionAsyncRequest("Accounts")
SessionRequestStep == \E s \in Sessions : SessionRequest(s, TRUE)
HeartbeatStep  == \E s \in Sessions : Heartbeat(s)
PongStep       == \E s \in Sessions : Pong(s)
PingStep       == \E s \in Sessions : Ping(s)
PeerCloseStep  == \E s \in Sessions : PeerClose(s)
PeerSilentStep == \E s \in Sessions : PeerSilent(s)

\* the sessions as the carriers of the dialogue: tabs that answer and close
SessionNext ==
    \/ SessionStartStep \/ SessionDisconnectStep \/ BrowserReplyStep
    \/ SessionAsyncRequestStep \/ SessionRequestStep \/ PeerCloseStep

SpecSession == Init /\ [][SessionNext]_vars

\* the sessions under the heartbeat: tabs that complete the handshake, and then keep
\* answering pings or fall silent
HandshakeStep ==
    \E s \in Sessions :
        /\ init_status.tag = "Pending"
        /\ flow[s].frame = [type |-> "Init", id |-> init_status.id]
        /\ BrowserReply(s, "Init", init_status.id, "")

HeartbeatNext ==
    \/ SessionStartStep \/ SessionDisconnectStep \/ HandshakeStep
    \/ SessionAsyncRequestStep \/ SessionRequestStep
    \/ HeartbeatStep \/ PongStep \/ PingStep \/ PeerSilentStep

SpecHeartbeat == Init /\ [][HeartbeatNext]_vars

\* run_interval fires again and again while the actor runs, and the broker handles
\* the Disconnect a stopping actor sent (do_send to a running actor)
HeartbeatFairness ==
    \A s \in Sessions :
        /\ WF_vars(Heartbeat(s))
        /\ WF_vars(SessionDisconnect(s))

SpecHeartbeatFair == Init /\ [][HeartbeatNext]_vars /\ HeartbeatFairness

\* the sessions from start to stop, on every way a session ends, with no call of
\* the facade under way: the tab answers the Init request with the right id or
\* with another one (and is kicked), sends
\* a frame that does not parse or is not supported, closes or falls silent
BadFrameStep    == \E s \in Sessions : BadFrame(s)
UnsupportedStep == \E s \in Sessions : Unsupported(s)
WrongInitStep ==
    \E s \in Sessions, id \in ReplyIds :
        /\ init_status.tag = "Pending"
        /\ id # init_status.id
        /\ flow[s].frame = [type |-> "Init", id |-> init_status.id]
        /\ BrowserReply(s, "Init", id, "")

LifecycleNext ==
    \/ SessionStartStep \/ SessionDisconnectStep \/ HandshakeStep \/ WrongInitStep
    \/ SessionRequestStep
    \/ HeartbeatStep \/ PongStep \/ PeerSilentStep \/ PeerCloseStep
    \/ BadFrameStep \/ UnsupportedStep

SpecLifecycle == Init /\ [][LifecycleNext]_vars

\* ------------------------------------------- the signer, the routes and the sessions
\* BrowserSigner::new_with_options up to its first await of the facade: Server::new
\* takes the nonce of the options or draws one, the url of the entry page is logged
\* (and handed to the browser of the user)
NewWithOptions(n) ==
    /\ nonce = NoNonce
    /\ nonce' = n
    /\ log' = log \cup
                {LogRecord("info",
                           "Please open your browser at {} and connect your wallet",
                           Url(n))}
    /\ UNCHANGED <<response, admitted>>
    /\ UNCHANGED <<bvars, fvars, pvars, svars, tvars>>

\* GET / of browser b, with the nonce parameter query (or without one)
Index(b, query) ==
    /\ nonce # NoNonce
    /\ response' = [index(query, nonce) EXCEPT !.to = b]
    /\ admitted' = IF response'.status = 200 THEN admitted \cup {b} ELSE admitted
    /\ UNCHANGED <<nonce, log>>
    /\ UNCHANGED <<bvars, fvars, pvars, svars, tvars>>

\* GET /ws/ of browser s: ws::start(WSFlow::new(comm)), the actor starts
WsOpen(s) ==
    /\ nonce # NoNonce
    /\ SessionStart(s)

NewWithOptionsStep == \E n \in Nonces : NewWithOptions(n)
IndexStep  == \E b \in Sessions, query \in Nonces \cup {NoQuery} : Index(b, query)
WsOpenStep == \E s \in Sessions : WsOpen(s)

\* what the process has logged: the records of the signer, and those of the broker
\* and the sessions that the state of the model tells of (their texts are fixed)
Logged ==
    log
    \cup (IF connects > 0 THEN {LogRecord("info", "Browser connected", NoUrl)} ELSE {})
    \cup (IF \E s \in Sessions : sess[s] = "gone"
          THEN {LogRecord("info", "Browser disconnected", NoUrl)} ELSE {})
    \cup (IF \E s \in Sessions : flow[s].why = "peer"
          THEN {LogRecord("warn", "WS Closed: {:?}", NoUrl)} ELSE {})

HttpNext ==
    \/ NewWithOptionsStep \/ IndexStep \/ WsOpenStep
    \/ HandshakeStep \/ SessionRequestStep \/ PeerCloseStep \/ SessionDisconnectStep

SpecHttp == Init /\ [][HttpNext]_vars

\* ------------------------------------------- the wallet hook and the wallet
\* One change_chain and one provide_chain_info run at a time; the wallet answers a
\* request as its user and its list of chains allow.
HookOnly == UNCHANGED <<bvars, fvars, svars, hvars, tvars>>

\* change_chain up to `request_switch_chain(..).await`
ChangeChain(chain) ==
    /\ change.pc \in {"idle", "done", "dropped"}
    /\ provide.pc # "adding"
    /\ Len(rpc_log) < MaxRpc
    /\ change' = [pc |-> "switching", chain |-> chain, first |-> Len(rpc_log) + 1,
                  result |-> NoResult]
    /\ UNCHANGED <<requires_chain_info, signal, provide, wallet_chains, wallet_chain,
                   rpc_log>>
    /\ HookOnly

\* the wallet answers wallet_switchEthereumChain, and change_chain matches on it
SwitchChainResult(outcome) ==
    /\ change.pc = "switching"
    /\ outcome \in (IF change.chain \in wallet_chains
                    THEN {"ok", "rejected"} ELSE {"unknown"})
    /\ rpc_log' = Append(rpc_log,
                         Rpc("wallet_switchEthereumChain", change.chain, outcome = "ok"))
    /\ CASE outcome = "ok" ->
              /\ wallet_chain' = change.chain
              /\ change' = [change EXCEPT !.pc = "done", !.result = Ok("")]
              /\ UNCHANGED <<requires_chain_info, signal>>
         [] outcome = "rejected" ->
              /\ change' = [change EXCEPT !.pc = "done", !.result = ProviderError("RPC")]
              /\ UNCHANGED <<requires_chain_info, signal, wallet_chain>>
         [] outcome = "unknown" ->
              /\ requires_chain_info' = change.chain
              /\ signal' = "open"
              /\ change' = [change EXCEPT !.pc = "blocked"]
              /\ UNCHANGED wallet_chain
    /\ UNCHANGED <<provide, wallet_chains>>
    /\ HookOnly

\* `rx.recv().await` returns Some(()): change_chain returns Ok(())
ChangeChainResume ==
    /\ change.pc = "blocked"
    /\ signal = "sent"
    /\ change' = [change EXCEPT !.pc = "done", !.result = Ok("")]
    /\ signal' = "none"
    /\ UNCHANGED <<requires_chain_info, provide, wallet_chains, wallet_chain, rpc_log>>
    /\ HookOnly

\* the future of a blocked change_chain is dropped, and the Receiver with it
ChangeChainDrop ==
    /\ change.pc = "blocked"
    /\ change' = [change EXCEPT !.pc = "dropped"]
    /\ signal' = "closed"
    /\ UNCHANGED <<requires_chain_info, provide, wallet_chains, wallet_chain, rpc_log>>
    /\ HookOnly

\* provide_chain_info up to `request_add_chain(..).await`
ProvideChainInfo ==
    /\ provide.pc \in {"idle", "done"}
    /\ change.pc # "switching"
    /\ IF requires_chain_info = NoChain
       THEN provide' = [pc |-> "done", chain |-> NoChain, first |-> Len(rpc_log) + 1,
                        result |-> ProviderError("Unsupported: no chain info required")]
       ELSE /\ Len(rpc_log) < MaxRpc
            /\ provide' = [pc |-> "adding", chain |-> requires_chain_info,
                           first |-> Len(rpc_log) + 1, result |-> NoResult]
    /\ UNCHANGED <<requires_chain_info, signal, change, wallet_chains, wallet_chain,
                   rpc_log>>
    /\ HookOnly

\* request_add_chain: the wallet answers wallet_addEthereumChain; a wallet that adds
\* a chain may make it the active chain
request_add_chain(outcome, switches) ==
    /\ rpc_log' = Append(rpc_log,
                         Rpc("wallet_addEthereumChain", provide.chain, outcome = "ok"))
    /\ IF outcome = "ok"
       THEN /\ wallet_chains' = wallet_chains \cup {provide.chain}
            /\ wallet_chain' = IF switches THEN provide.chain ELSE wallet_chain
       ELSE UNCHANGED <<wallet_chains, wallet_chain>>

\* faulty variant: the error of the wallet is returned after the waiting
\* change_chain was signalled and requires_chain_info reset
AddChainResult_signal_first(outcome, switches) ==
    /\ provide.pc = "adding"
    /\ request_add_chain(outcome, switches)
    /\ IF signal = "open"
       THEN /\ signal' = "sent"
            /\ requires_chain_info' = NoChain
            /\ provide' = [provide EXCEPT
                              !.pc = "done",
                              !.result = IF outcome = "ok" THEN Ok("")
                                         ELSE ProviderError("RPC")]
       ELSE /\ provide' = [provide EXCEPT
                              !.pc = "done",
                              !.result = IF outcome = "ok"
                                         THEN ProviderError("Unsupported: send error")
                                         ELSE ProviderError("RPC")]
            /\ UNCHANGED <<requires_chain_info, signal>>
    /\ UNCHANGED change
    /\ HookOnly

\* provide_chain_info from the answer of the wallet on: `?`, sender.send, set(None)
AddChainResult(outcome, switches) ==
    /\ provide.pc = "adding"
    /\ request_add_chain(outcome, switches)
    /\ IF outcome # "ok"
       THEN /\ provide' = [provide EXCEPT !.pc = "done", !.result = ProviderError("RPC")]
            /\ UNCHANGED <<requires_chain_info, signal>>
       ELSE IF signal = "open"
            THEN /\ signal' = "sent"
                 /\ requires_chain_info' = NoChain
                 /\ provide' = [provide EXCEPT !.pc = "done", !.result = Ok("")]
            ELSE /\ provide' = [provide EXCEPT
                                  !.pc = "done",
                                  !.result = ProviderError("Unsupported: send error")]
                 /\ UNCHANGED <<requires_chain_info, signal>>
    /\ UNCHANGED change
    /\ HookOnly

ChangeChainStep == \E chain \in Chains : ChangeChain(chain)
SwitchChainResultStep ==
    \E outcome \in {"ok", "rejected", "unknown"} : SwitchChainResult(outcome)
AddChainResultStep ==
    \E outcome \in {"ok", "rejected"}, switches \in BOOLEAN :
        AddChainResult(outcome, switches)

ProviderNext ==
    \/ ChangeChainStep \/ SwitchChainResultStep \/ ChangeChainResume \/ ChangeChainDrop
    \/ ProvideChainInfo \/ AddChainResultStep

SpecProvider == Init /\ [][ProviderNext]_vars

\* ------------------------------------------- the front-end (frontend/src/main.rs)
\* RequestContent of the frames the server sends, and the chain id an Init or a
\* SignTransaction may carry (0: none)
RequestContent ==
    {"Init", "Accounts", "SignTextMessage", "SignBinaryMessage", "SignTransaction",
     "SignTypedData"}
FrameChains(content) == IF content \in {"Init", "SignTransaction"} THEN {0, 1} ELSE {0}

\* ws::messages::Response
WsResponse(id, type, data) == [id |-> id, type |-> type, data |-> data]

\* format!("{}", e) of a ProviderError (#[error(..)] of each variant)
Display(e) ==
    CASE e.val = "RPC" -> "rcp error: {0}"
      [] e.val = "Unsupported: transaction" -> "unsupported: transaction: {}"
      [] OTHER -> "unsupported: {0}"

\* the answers of the wallet to the calls one request may need: the switch of the
\* chain and the request itself (transform: transform_transaction succeeds)
Answers == [switch : BOOLEAN, call : BOOLEAN, transform : BOOLEAN]

\* call_provider: the calls to the wallet that the request needs, `?` after each
call_provider(request, a) ==
    CASE request.content = "Init" ->
             IF request.chain # 0 /\ ~a.switch
             THEN ProviderError("RPC")
             ELSE Ok(WsResponse(request.id, "Init", ""))
      [] request.content = "Accounts" ->
             IF ~a.call
             THEN ProviderError("RPC")
             ELSE Ok(WsResponse(request.id, "Accounts", "addresses"))
      [] request.content \in {"SignTextMessage", "SignBinaryMessage", "SignTypedData"} ->
             IF ~a.call
             THEN ProviderError("RPC")
             ELSE Ok(WsResponse(request.id, "Signature", "signature"))
      [] request.content = "SignTransaction" ->
             IF ~a.transform
             THEN ProviderError("Unsupported: transaction")
             ELSE IF request.chain # 0 /\ ~a.switch
                  THEN ProviderError("RPC")
                  ELSE IF ~a.call
                       THEN ProviderError("RPC")
                       ELSE Ok(WsResponse(request.id, "Signature", "signature"))

\* faulty variant: an error of the wallet is logged and no response is sent
handle_request_error_logged(status, request, a) ==
    IF status = "Ok"
    THEN LET r == call_provider(request, a)
         IN  IF r.tag = "Ok" THEN <<r.val>> ELSE <<>>
    ELSE <<WsResponse(request.id, "Error", "no wallet available in your browser")>>

\* the future handle_request spawns: what it gives to WebsocketService::send
handle_request(status, request, a) ==
    IF status = "Ok"
    THEN LET r == call_provider(request, a)
         IN  IF r.tag = "Ok"
             THEN <<r.val>>
             ELSE <<WsResponse(request.id, "Error", Display(r))>>
    ELSE <<WsResponse(request.id, "Error", "no wallet available in your browser")>>

FrontendOnly == UNCHANGED <<bvars, fvars, pvars, svars, hvars>>

\* use_provider returns another value: the wallet was found or not, an error was
\* set or cleared; App renders again and the callback is made anew
UseProvider(status) ==
    /\ status # use_provider
    /\ status # "None"
    /\ use_provider' = status
    /\ UNCHANGED <<tasks, websocket, tx>>
    /\ FrontendOnly

\* a request frame arrives and handle_request spawns its future, with the status
\* of the last render.  The server sends a session one request at a time: the
\* next one after the response to the one before.
WsMessage(content, chain) ==
    /\ Len(tasks) < MaxFrames
    /\ \A t \in 1..Len(tasks) : tasks[t].pc = "done"
    /\ tasks' = Append(tasks, [request |-> [id |-> Len(tasks) + 1, content |-> content,
                                            chain |-> chain],
                               status |-> use_provider, pc |-> "spawned"])
    /\ UNCHANGED <<use_provider, websocket, tx>>
    /\ FrontendOnly

\* the future runs: it locks the websocket; with a provider it calls the wallet,
\* the lock held, and without one it sends the error and is done
TaskRun(t) ==
    /\ t \in 1..Len(tasks)
    /\ tasks[t].pc = "spawned"
    /\ websocket = NoTask
    /\ IF tasks[t].status = "Ok"
       THEN /\ websocket' = t
            /\ tasks' = [tasks EXCEPT ![t].pc = "calling"]
            /\ UNCHANGED tx
       ELSE /\ tx' = tx \o handle_request(tasks[t].status, tasks[t].request,
                                          CHOOSE a \in Answers : TRUE)
            /\ tasks' = [tasks EXCEPT ![t].pc = "done"]
            /\ UNCHANGED websocket
    /\ UNCHANGED use_provider
    /\ FrontendOnly

\* the wallet has answered: the response or the error is sent, the lock released
ProviderAnswer(t, a) ==
    /\ t \in 1..Len(tasks)
    /\ tasks[t].pc = "calling"
    /\ tx' = tx \o handle_request(tasks[t].status, tasks[t].request, a)
    /\ tasks' = [tasks EXCEPT ![t].pc = "done"]
    /\ websocket' = NoTask
    /\ UNCHANGED use_provider
    /\ FrontendOnly

UseProviderStep == \E status \in {"Ok", "Err"} : UseProvider(status)
WsMessageStep ==
    \E content \in RequestContent : \E chain \in FrameChains(content) :
        WsMessage(content, chain)
TaskRunStep == \E t \in 1..MaxFrames : TaskRun(t)
ProviderAnswerStep == \E t \in 1..MaxFrames, a \in Answers : ProviderAnswer(t, a)

FrontendNext ==
    \/ UseProviderStep \/ WsMessageStep \/ TaskRunStep \/ ProviderAnswerStep

SpecFrontend == Init /\ [][FrontendNext]_vars

\* ----------------------------------------------- the facade on the happy path
\* One browser tab connects and stays; it answers the Init request with Init{} and
\* every request it is sent with the variant the request asks for, under the
\* request's id.  The payload it gives for a request is a function of the id.
PayloadOf(id) == IF id % 2 = 1 THEN "p" ELSE "q"

HappyConnect ==
    /\ connects = 0
    /\ ConnectStep

HappyAnswerInit ==
    /\ client # NoClient
    /\ init_status.tag = "Pending"
    /\ FacadeReply(client, "Init", init_status.id, "")

HappyAnswer ==
    /\ client # NoClient
    /\ init_status = InitDone
    /\ is_handling_request
    /\ FacadeReply(client, Expected(Head(pending_messages).content),
                   Head(pending_messages).id, PayloadOf(Head(pending_messages).id))

HappyNext ==
    \/ CallStep \/ LockStep \/ PollStep
    \/ HappyConnect \/ HappyAnswerInit \/ HappyAnswer

\* the tab, the broker and every call that was made keep running
HappyFairness ==
    /\ WF_vars(HappyConnect)
    /\ WF_vars(HappyAnswerInit)
    /\ WF_vars(HappyAnswer)
    /\ \A c \in Calls : WF_vars(WaitForReplyLock(c)) /\ WF_vars(WaitForReplyPoll(c))

SpecHappy == Init /\ [][HappyNext]_vars /\ HappyFairness

\* ------------------------------------- wait_for_reply and the channel alone
\* Here the broker's side of the channel is any sender: responses of any variant,
\* with the id of a call or with no call's id, arrive in any order, and the sender
\* may go away.  One call is followed through, with any of the five operations and
\* any timeout.
Timeouts == {Duration(n) : n \in 0..MaxTimeout} \cup {TIMEOUT}

WaitCallStep ==
    \E c \in Calls, op \in AsyncRequestContent, timeout \in Timeouts :
        /\ \A d \in Calls : calls[d].pc = "idle"
        /\ WaitForReplySend(c, op, timeout)

\* the sender puts a response on the channel
Deliver(id, type, data) ==
    /\ comm_alive
    /\ replies < MaxReplies
    /\ replies' = replies + 1
    /\ chan' = Append(chan, [id |-> id, type |-> type, data |-> data])
    /\ UNCHANGED <<client, init_status, is_handling_request, pending_messages, connects,
                   sess, effects, emitted, forwarded, enqueued, after_disconnect>>
    /\ UNCHANGED <<calls, mutex, comm_alive>>
    /\ UNCHANGED xvars

DeliverStep ==
    \E id \in {calls[c].id : c \in Calls}, type \in AsyncResponseContent :
        \E data \in ReplyData(type) :
            Deliver(id, type, data)

\* the thread of the broker ends: the actor and the channel's Sender are dropped
CommStops ==
    /\ comm_alive
    /\ comm_alive' = FALSE
    /\ UNCHANGED <<bvars, calls, mutex, chan>>
    /\ UNCHANGED xvars

WaitNext == WaitCallStep \/ LockStep \/ PollStep \/ DeliverStep \/ CommStops

SpecWait == Init /\ [][WaitNext]_vars

\* --------------------------------------------------- claims about the facade
\* the calls that have submitted their request and not returned
Waiting(c) == calls[c].pc \in {"awaiting", "polling"}

\* what a call returns from a channel ch once it has read it up to the first
\* response with its id (NoResult if there is none)
WouldReturn(c, ch) ==
    LET I == {i \in 1..Len(ch) : ch[i].id = calls[c].id}
    IN  IF I = {} THEN NoResult
        ELSE reply_result(calls[c].op, ch[CHOOSE i \in I : \A j \in I : i <= j])

\* C12: with init Done, when the attached client answers the request at the head
\* of the queue with Error{text}, the request is popped, nobody is kicked, the
\* client stays attached with init Done, the next queued request is sent to it, and
\* the call waiting for that id is to return ClientError(text).
C12_ErrorReplySurfaced ==
    [][\A id \in ReplyIds, data \in ReplyData("Error") :
          (/\ init_status = InitDone
           /\ client # NoClient
           /\ pending_messages # <<>>
           /\ id = Head(pending_messages).id
           /\ FacadeReply(client, "Error", id, data))
          => /\ pending_messages' = Tail(pending_messages)
             /\ Closes(effects') = {}
             /\ client' = client
             /\ init_status' = InitDone
             /\ Tail(pending_messages) # <<>>
                  => effects'[Len(effects')] =
                         ToWSRequest(client, Head(Tail(pending_messages)))
             /\ \A c \in Calls :
                    (Waiting(c) /\ calls[c].id = id)
                    => WouldReturn(c, chan') = ServerErrorClient(data)]_vars

\* the response variant that is the success of each public operation
SuccessVariant ==
    {<<"Accounts", "Accounts">>, <<"SignTextMessage", "MessageSignature">>,
     <<"SignBinaryMessage", "MessageSignature">>,
     <<"SignTransaction", "TransactionSignature">>,
     <<"SignTypedData", "MessageSignature">>}

\* C13: a turn of the loop of a call with id X that is within its timeout takes
\* the next response off the channel; it discards a response with another id and
\* goes on waiting; on a response with id X it returns Ok(payload) if the variant
\* is the operation's, ClientError(text) if it is Error{text}, CommError("unexpected
\* response") otherwise; with the channel empty and disconnected it returns
\* CommError; once the timeout has elapsed it returns CommError.
C13_WaitForReplyContract ==
    [][\A c \in Calls :
          (calls[c].pc = "polling" /\ WaitForReplyPoll(c))
          => LET me   == calls[c]
                 timedOut == ~me.timeout.max /\ me.elapsed >= me.timeout.ticks
                 res  == Head(chan)
             IN  /\ timedOut
                      => /\ calls'[c].pc = "done"
                         /\ calls'[c].result = [tag |-> "Comm", val |-> "timeout"]
                 /\ (~timedOut /\ chan # <<>> /\ res.id # me.id)
                      => /\ chan' = Tail(chan)
                         /\ calls'[c].pc = "polling"
                         /\ calls'[c].result = NoResult
                 /\ (~timedOut /\ chan # <<>> /\ res.id = me.id)
                      => /\ chan' = Tail(chan)
                         /\ calls'[c].pc = "done"
                         /\ calls'[c].result =
                              IF <<me.op, res.type>> \in SuccessVariant
                              THEN [tag |-> "Ok", val |-> res.data]
                              ELSE IF res.type = "Error"
                                   THEN [tag |-> "Client", val |-> res.data]
                                   ELSE [tag |-> "Comm", val |-> "unexpected response"]
                 /\ (~timedOut /\ chan = <<>> /\ ~comm_alive)
                      => /\ calls'[c].pc = "done"
                         /\ calls'[c].result = [tag |-> "Comm", val |-> "disconnected"]
                 /\ (~timedOut /\ chan = <<>> /\ comm_alive)
                      => calls'[c].pc = "polling"]_vars

\* C13 witness: a sign_typed_data call returned ClientError("q") from the last of
\* the responses delivered, having taken the others off the channel before it.
C13_Witness ==
    \E c \in Calls :
        /\ calls[c].pc = "done"
        /\ calls[c].op = "SignTypedData"
        /\ calls[c].result = ServerErrorClient("q")
        /\ replies = MaxReplies
        /\ chan = <<>>

\* C14: the broker queue never holds the requests of two different facade calls
\* (no call submits its request while another call's request is unanswered).
C14_OneCallOutstanding ==
    Cardinality({c \in Calls : calls[c].pc # "idle" /\ calls[c].id \in QueueIds}) <= 1

\* the ids of the calls whose caller dropped them
DroppedIds == {calls[c].id : c \in {d \in Calls : calls[d].pc = "dropped"}}

\* C15: dropping a call after its request was enqueued leaves the broker and the
\* channel as they were (the request stays queued and is sent like any other); the
\* answer to a dropped call's request is popped and put on the channel; a call that
\* finds a dropped call's response on the channel takes it off and goes on waiting;
\* and a call only returns a result from a response that carries its own id.
C15_DroppedCallReplyDiscarded ==
    [][/\ \A c \in Calls :
            Abandon(c) => UNCHANGED <<bvars, chan, mutex>>
       /\ \A type \in FacadeReplyTypes \ {"Init"}, id \in DroppedIds :
            \A data \in ReplyData(type) :
                (/\ init_status = InitDone
                 /\ client # NoClient
                 /\ pending_messages # <<>>
                 /\ id = Head(pending_messages).id
                 /\ FacadeReply(client, type, id, data))
                => /\ chan' = Append(chan, [id |-> id, type |-> type, data |-> data])
                   /\ pending_messages' = Tail(pending_messages)
       /\ \A c \in Calls :
            (calls[c].pc = "polling" /\ WaitForReplyPoll(c) /\ chan # <<>>)
            => /\ Head(chan).id \in DroppedIds
                    => chan' = Tail(chan) /\ calls'[c] = calls[c]
               /\ calls'[c].pc = "done"
                    => /\ Head(chan).id = calls[c].id
                       /\ Head(chan).id \notin DroppedIds]_vars

\* C15 witness: the request of a dropped call went to the browser and its answer
\* to the channel, and the next call has returned Ok from an emptied channel.
C15_Witness ==
    /\ calls[1].pc = "dropped"
    /\ replies = MaxReplies
    /\ calls[2].pc = "done"
    /\ calls[2].result.tag = "Ok"
    /\ forwarded = <<calls[1].id, calls[2].id>>
    /\ EmittedIds = <<calls[1].id, calls[2].id>>
    /\ chan = <<>>

\* C16: on the happy path every facade call that was made eventually returns Ok
\* with the payload the browser gave for the call's id.
C16_EveryCallReturnsOk ==
    \A c \in Calls :
        (calls[c].pc = "awaiting")
            ~> (calls[c].pc = "done" /\ calls[c].result = Ok(PayloadOf(calls[c].id)))

\* C17: an Error answer to the Init request does not fail the call that waits for
\* the request at the head of the queue: the request stays queued for the next
\* handshake, and nothing the call will read as its result is put on the channel.
C17_InitErrorDoesNotFailPendingCall ==
    [][\A data \in ReplyData("Error") :
          (/\ client # NoClient
           /\ init_status.tag = "Pending"
           /\ pending_messages # <<>>
           /\ FacadeReply(client, "Error", init_status.id, data))
          => /\ pending_messages' = pending_messages
             /\ \A c \in Calls :
                    (Waiting(c) /\ calls[c].id = Head(pending_messages).id)
                    => WouldReturn(c, chan') = WouldReturn(c, chan)]_vars

\* ---------------------------------------------- claims about the wallet hook
\* the change_chain call (its first request is rpc_log[change.first]) was answered
\* UnknownChain
WasUnknown ==
    /\ change.pc \in {"blocked", "done", "dropped"}
    /\ ~rpc_log[change.first].ok
    /\ change.pc = "done" => change.result = Ok("")

\* since the call started the chain was added and then the switch made again, both
\* with success
SwitchedAfterAdd ==
    \E i, j \in change.first..Len(rpc_log) :
        /\ i < j
        /\ rpc_log[i] = Rpc("wallet_addEthereumChain", change.chain, TRUE)
        /\ rpc_log[j] = Rpc("wallet_switchEthereumChain", change.chain, TRUE)

\* C18: a change_chain whose switch failed with UnknownChain records the chain in
\* requires_chain_info and blocks until chain info is provided; it completes
\* successfully only after the chain was added to the wallet and the switch to the
\* chain was made again and succeeded.
C18_ChangeChainRetriesSwitch ==
    /\ (change.pc = "blocked" /\ signal = "open") => requires_chain_info = change.chain
    /\ (change.pc = "done" /\ WasUnknown) => SwitchedAfterAdd

\* ------------------------------------------------ claims about the sessions
\* the steps C19 is about: the tab's Init answer with a wrong id reaches the broker,
\* the session takes the broker's Close from its mailbox, a new session starts
WrongInitKicked(s, id) ==
    (/\ client = s
     /\ init_status.tag = "Pending"
     /\ id # init_status.id
     /\ BrowserReply(s, "Init", id, ""))
    => /\ inbox'[s] # <<>>
       /\ inbox'[s][Len(inbox'[s])] = WSRequest(s, "Close", NoId, "invalid id on init")
       /\ client' = NoClient

ClosedWith(s, description) ==
    (/\ flow[s].state = "open"
     /\ inbox[s] # <<>>
     /\ Head(inbox[s]) = WSRequest(s, "Close", NoId, "invalid id on init")
     /\ SessionRequest(s, TRUE))
    => /\ flow'[s].state = "stopped"
       /\ flow'[s].close = description

FreshInit(s) ==
    SessionStart(s)
    => /\ inbox'[s] = <<WSRequest(s, "Init", init_status'.id, "")>>
       /\ init_status'.tag = "Pending"
       /\ init_status'.id \notin {InitIdBase + k : k \in 1..connects}

\* C19 as stated: after an Init answer with a wrong id the session's websocket is
\* closed with the description "internal error (client)", and a new connection is
\* sent an Init request with a newly generated id.
C19_WrongInitIdClosesInternalError ==
    [][\A s \in Sessions :
          /\ \A id \in ReplyIds : WrongInitKicked(s, id)
          /\ ClosedWith(s, "internal error (client)")
          /\ FreshInit(s)]_vars

\* C19 amended: the same, the close description being the broker's reason for the
\* kick, "invalid id on init".
C19_WrongInitIdClosesWithReason ==
    [][\A s \in Sessions :
          /\ \A id \in ReplyIds : WrongInitKicked(s, id)
          /\ ClosedWith(s, "invalid id on init")
          /\ FreshInit(s)]_vars

\* C19 witness: a session was closed for a wrong id on init, and the tab of the
\* next session has been sent an Init request.
C19_Witness ==
    \E s, t \in Sessions :
        /\ flow[s].state = "stopped"
        /\ flow[s].close = "invalid id on init"
        /\ flow[t].state = "open"
        /\ flow[t].frame.type = "Init"
        /\ flow[t].frame.id = init_status.id

\* the steps C20 is about.  The callback of the interval: more than CLIENT_TIMEOUT
\* since last_heartbeat stops the actor, anything else sends a ping
HeartbeatTick(s) ==
    Heartbeat(s)
    => IF flow[s].age + HEARTBEAT_INTERVAL > CLIENT_TIMEOUT
       THEN flow'[s].state = "stopped" /\ flow'[s].why = "heartbeat"
       ELSE flow'[s].state = "open" /\ flow'[s].pinged

\* a ping or a pong of the tab resets last_heartbeat
Refreshed(s) ==
    (Ping(s) \/ Pong(s)) => (flow'[s].state = "open" /\ flow'[s].age = 0)

\* the heartbeat does not stop a session whose tab answers
AnsweringKept(s) ==
    (Heartbeat(s) /\ peer[s] = "answering") => flow'[s].state = "open"

\* the broker handles the Disconnect of its client: the client is cleared, the
\* queue is as it was
ClientCleared(s) ==
    (client = s /\ SessionDisconnect(s))
    => /\ client' = NoClient
       /\ pending_messages' = pending_messages

\* a session whose tab went silent is stopped by the heartbeat, and the broker
\* has handled its Disconnect
SilentStopped(s) ==
    (flow[s].state = "open" /\ peer[s] = "silent")
    ~> (/\ flow[s].state = "stopped"
        /\ flow[s].why = "heartbeat"
        /\ sess[s] = "gone"
        /\ client # s)

\* C20: at every heartbeat tick a session stops itself if more than 30 s have gone
\* by since last_heartbeat and pings otherwise; a ping or pong of the tab resets
\* last_heartbeat, so a session whose tab keeps answering is never stopped by the
\* heartbeat, while a session whose tab went silent is stopped, and the broker then
\* clears its client and leaves the pending requests queued.
C20_HeartbeatStopsSilentSession ==
    /\ [][\A s \in Sessions :
             /\ HeartbeatTick(s)
             /\ Refreshed(s)
             /\ AnsweringKept(s)
             /\ ClientCleared(s)]_vars
    /\ \A s \in Sessions : SilentStopped(s)

\* C20 witness: the heartbeat stopped a session, the broker handled its Disconnect
\* and has no client, and a request is still queued.
C20_Witness ==
    \E s \in Sessions :
        /\ flow[s].state = "stopped"
        /\ flow[s].why = "heartbeat"
        /\ sess[s] = "gone"
        /\ client = NoClient
        /\ pending_messages # <<>>

\* the steps C21 is about.  A step on which session s ends: it takes the broker's
\* Close from its mailbox, gets a frame that does not parse or is not supported,
\* finds its heartbeat timed out, or gets the Close frame of the tab
TerminationPath(s) ==
    \/ /\ flow[s].state = "open"
       /\ inbox[s] # <<>>
       /\ Head(inbox[s]).type = "Close"
       /\ SessionRequest(s, TRUE)
    \/ BadFrame(s)
    \/ Unsupported(s)
    \/ (flow[s].age + HEARTBEAT_INTERVAL > CLIENT_TIMEOUT /\ Heartbeat(s))
    \/ PeerClose(s)

\* session s forwards a response of its tab to the broker
SessionForwards(s) ==
    \E id \in ReplyIds : BrowserReply(s, "Init", id, "")

\* started: the one Connect of the session, before any response is forwarded
ConnectOnce(s) ==
    /\ SessionStart(s) => (flow[s].state = "new" /\ sess[s] = "new" /\ sess'[s] = "open")
    /\ SessionForwards(s) => (flow[s].state = "open" /\ sess[s] = "open")
    /\ sess[s] # "new" => sess'[s] # "new"

\* stopping: the actor stops on every termination path, its one Disconnect is on
\* its way to the broker (sent, not yet handled: the session is stopped and the
\* broker still counts it as open), and once the broker has handled it nothing
\* more comes
DisconnectOnce(s) ==
    /\ TerminationPath(s) => (flow'[s].state = "stopped" /\ sess'[s] = "open")
    /\ flow[s].state = "stopped" => (flow'[s].state = "stopped" /\ ~SessionForwards(s))
    /\ SessionDisconnect(s) => (flow[s].state = "stopped" /\ sess'[s] = "gone")
    /\ sess[s] = "gone" => (sess'[s] = "gone" /\ ~SessionDisconnect(s))

\* C21: every session emits Connect exactly once, when it starts and before it
\* forwards any response; on every termination path (kick via Close, a frame that
\* does not parse, an unsupported frame, heartbeat timeout, Close frame of the tab)
\* it stops and emits exactly one Disconnect, and it forwards nothing more.
C21_ConnectAndDisconnectOnce ==
    [][\A s \in Sessions : ConnectOnce(s) /\ DisconnectOnce(s)]_vars

\* C21 witness: one session was kicked with Close and another stopped by its
\* heartbeat, and the broker has handled the Disconnect of both.
C21_Witness ==
    \E s, t \in Sessions :
        /\ flow[s].state = "stopped" /\ flow[s].close = "invalid id on init"
        /\ flow[t].state = "stopped" /\ flow[t].why = "heartbeat"
        /\ sess[s] = "gone"
        /\ sess[t] = "gone"

\* ------------------------------------------------ claims about the http server
\* C22 as stated: GET / returns the index page if and only if the nonce parameter
\* of the request equals the nonce of the server; every other request to / (another
\* nonce, or none) is answered with 404.
C22_IndexIffNonceElse404 ==
    [][\A b \in Sessions, query \in Nonces \cup {NoQuery} :
          Index(b, query)
          => /\ response'.to = b
             /\ (response'.status = 200 /\ response'.body = "index.html")
                    <=> query = nonce
             /\ query # nonce => response'.status = 404]_vars

\* C22 amended: the index page if and only if the nonce parameter equals the nonce
\* of the server; 404 for another nonce, 400 for a request without the parameter.
C22_IndexIffNonceElse404Or400 ==
    [][\A b \in Sessions, query \in Nonces \cup {NoQuery} :
          Index(b, query)
          => /\ response'.to = b
             /\ (response'.status = 200 /\ response'.body = "index.html")
                    <=> query = nonce
             /\ (query # nonce /\ query # NoQuery) => response'.status = 404
             /\ query = NoQuery => response'.status = 400]_vars

\* C22 witness: a browser was served the index page, and another request was
\* answered 404.
C22_Witness ==
    /\ admitted # {}
    /\ response.status = 404

\* C23: the bridge authenticates exactly one browser connection by a one-shot
\* nonce: the session attached to the broker as client belongs to a browser that
\* presented the nonce of the server (and was served the entry page for it), and
\* the nonce is accepted for one browser only.
C23_OneShotNonceGate ==
    /\ client # NoClient => client \in admitted
    /\ Cardinality(admitted) <= 1

\* C24: the nonce is never logged: no log record holds the nonce of the server.
C24_NonceNeverLogged ==
    \A r \in Logged : nonce # NoNonce => r.url.nonce # nonce

\* ------------------------------------------------ more claims about the broker
\* the broker as it is, but for the three fields the guard of the pump reads
PumpInputs ==
    {[Cur EXCEPT !.client = c, !.init_status = i, !.is_handling_request = b] :
        c \in {NoClient} \cup Sessions,
        i \in {InitNone, InitPending(gen_id), InitDone},
        b \in BOOLEAN}

PumpGuard(st) ==
    /\ ~st.is_handling_request
    /\ st.init_status = InitDone
    /\ st.client # NoClient

\* C25: send_pending_message sends a request only if a client is attached, init is
\* Done and in_flight was false; the request goes to the client with the id and the
\* content variant of the head of the queue, and in_flight becomes true; with an
\* empty queue or a failing guard nothing is sent and nothing changes.  After a
\* handler that sent a request, the request is the head's, its addressee is the
\* client, init is Done and in_flight is true.
C25_RequestPumpGuard ==
    /\ \A st \in PumpInputs :
          LET out == send_pending_message(st)
          IN  IF PumpGuard(st) /\ st.pending_messages # <<>>
              THEN /\ out.eff = <<WSRequest(st.client,
                                            Head(st.pending_messages).content,
                                            Head(st.pending_messages).id, "")>>
                   /\ out.is_handling_request
                   /\ out = [st EXCEPT !.is_handling_request = TRUE, !.eff = out.eff]
              ELSE out = st
    /\ \A i \in 1..Len(effects) :
          IsRequest(effects[i])
          => /\ effects[i].to = client
             /\ init_status = InitDone
             /\ is_handling_request
             /\ pending_messages # <<>>
             /\ effects[i].id = Head(pending_messages).id
             /\ effects[i].type = Head(pending_messages).content

\* C25 witness: with two requests queued, the last handler sent the client the
\* request at the head of the queue.
C25_Witness ==
    /\ Len(pending_messages) = 2
    /\ client # NoClient
    /\ \E i \in 1..Len(effects) :
          /\ IsRequest(effects[i])
          /\ effects[i].id = Head(pending_messages).id
          /\ effects[i].id # pending_messages[2].id

\* what C26 is about.  Connect: the session becomes the client, init is Pending
\* under an id never used before, and the session is sent one Init with it
ConnectStartsHandshake(s) ==
    LET st == WSReplyConnect(Cur, s)
    IN  /\ st.client = s
        /\ st.init_status.tag = "Pending"
        /\ st.init_status.id \notin {InitIdBase + k : k \in 1..connects}
        /\ st.eff = <<WSRequest(s, "Init", st.init_status.id, "")>>

\* init becomes Done only by the client's Init answer under the pending id, and
\* while it stays Done the client stays
DoneByInitAnswer ==
    /\ \A s \in Sessions, type \in ReplyTypes, id \in ReplyIds :
          \A data \in ReplyData(type) :
              LET st == WSReplyResponse(Cur, s, type, id, data)
              IN  st.init_status = InitDone
                  => /\ st.client = client
                     /\ init_status # InitDone
                           => /\ init_status = InitPending(id)
                              /\ type = "Init"
                              /\ s = client
    /\ \A s \in Sessions :
          /\ WSReplyConnect(Cur, s).init_status # InitDone
          /\ WSReplyDisconnect(Cur, s).init_status = InitDone
                => WSReplyDisconnect(Cur, s).client = client
    /\ \A c \in CallerContents :
          LET st == queue_pending_message(Cur, [id |-> server_gen_id, content |-> c])
          IN  st.init_status = init_status /\ st.client = client

\* the requests a handler sent went to the client, with init Done
RequestsToReadyClient ==
    \A i \in 1..Len(effects) :
        IsRequest(effects[i])
        => (effects[i].to = client /\ client # NoClient /\ init_status = InitDone)

\* C26: on Connect the broker stores the session as client, sets init to Pending
\* under a fresh id and sends that session exactly one Init with it; no Accounts or
\* Sign* request is sent to a session before that session has answered Init{} with
\* the init id the broker generated for it.
C26_HandshakeFirst ==
    [](
      /\ \A s \in Sessions : ConnectStartsHandshake(s)
      /\ DoneByInitAnswer
      /\ RequestsToReadyClient
      )

\* C26 witness: the second session to connect has answered its Init and was sent
\* a request.
C26_Witness ==
    /\ connects >= 2
    /\ init_status = InitDone
    /\ client # NoClient
    /\ \E i \in 1..Len(effects) : IsRequest(effects[i]) /\ effects[i].to = client

\* C27: no stuck pump: after every handler, if a client is attached with init Done
\* and the queue is not empty, then in_flight is true and the request at the head
\* of the queue has been sent to the attached client.
C27_NoStuckPump ==
    (client # NoClient /\ init_status = InitDone /\ pending_messages # <<>>)
    => /\ is_handling_request
       /\ \E i \in 1..Len(emitted) :
             /\ emitted[i].client = client
             /\ emitted[i].id = Head(pending_messages).id

\* C28: a request for which the broker has forwarded a reply to the caller channel
\* (the Error forwarded on a failed handshake included) is not sent to a session
\* afterwards.
C28_AnsweredRequestNotSentAgain ==
    [][\A i \in (Len(emitted) + 1)..Len(emitted') :
          \A k \in 1..Len(forwarded') : forwarded'[k] # emitted'[i].id]_vars

\* C30: within one session (from the Connect of a client to the next Connect or
\* Disconnect the broker handles) each request id is sent to that browser at most
\* once, whatever the browser answers.  (A session connects once, so no request
\* is sent twice to the same session.)
C30_SentOncePerSession ==
    \A i, j \in 1..Len(emitted) : i < j => emitted[i] # emitted[j]

\* ------------------------------------------------ more claims about the facade
\* C29: with concurrent calls on one Server, a reply the broker forwarded for id X
\* is not read and discarded by another call while the call that generated X is
\* still waiting (for the receiver mutex or for its reply).
C29_ReplyNotStolen ==
    [][\A c \in Calls :
          (/\ WaitForReplyPoll(c)
           /\ InTime(calls[c])
           /\ chan # <<>>
           /\ Head(chan).id # calls[c].id)
          => ~\E d \in Calls \ {c} : Waiting(d) /\ calls[d].id = Head(chan).id]_vars

\* ------------------------------------------------ the broker's handlers, one by one
\* C31: a Disconnect from the attached client sets client = None, init = None and
\* in_flight = false and leaves the queue unchanged; a Disconnect from any other
\* session (the late Disconnect of a kicked or displaced session) leaves client,
\* init, in_flight and the queue unchanged.  Neither sends anything.
C31_DisconnectHandling ==
    \A s \in Sessions :
        LET st == WSReplyDisconnect(Cur, s)
        IN  /\ st.pending_messages = pending_messages
            /\ st.eff = <<>>
            /\ IF client = s
               THEN /\ st.client = NoClient
                    /\ st.init_status = InitNone
                    /\ ~st.is_handling_request
               ELSE /\ st.client = client
                    /\ st.init_status = init_status
                    /\ st.is_handling_request = is_handling_request

\* C31 witness: the Disconnect of a displaced session was handled while the
\* session that displaced it was the client with a request in flight, and the
\* broker is as it was.
C31_Witness ==
    /\ client # NoClient
    /\ init_status = InitDone
    /\ is_handling_request
    /\ pending_messages # <<>>
    /\ effects = <<>>
    /\ \E s \in Sessions : s < client /\ sess[s] = "gone"
    /\ \A s \in Sessions : s < client => sess[s] = "gone"
    /\ Len(enqueued) = Len(pending_messages) + Len(forwarded)

\* the sessions whose tab can send a response: started, and not yet known to the
\* broker as stopped
OpenSessions == {s \in Sessions : sess[s] = "open"}

\* client.as_ref().unwrap() and pending_messages.remove(0) are the two places
\* where a handler can panic: a message to the client is addressed to a session,
\* never to None, and what is left of the queue is the queue or its tail
NoPanic(st) ==
    /\ \A i \in 1..Len(st.eff) : st.eff[i].dst = "client" => st.eff[i].to \in Sessions
    /\ \/ st.pending_messages = pending_messages
       \/ pending_messages # <<>> /\ st.pending_messages = Tail(pending_messages)
       \/ \E c \in CallerContents :
             st.pending_messages =
                 Append(pending_messages, [id |-> server_gen_id, content |-> c])

\* a Close sent to the attached client carries a reason and detaches it
KickDetaches(st) ==
    \A i \in Closes(st.eff) :
        /\ st.eff[i].data # ""
        /\ st.eff[i].to = client
              => /\ st.client = NoClient
                 /\ st.init_status = InitNone
                 /\ ~st.is_handling_request

\* C32: the broker never panics on protocol violations: for every message and
\* every reachable broker state the handler completes (the unwrap of client in the
\* pump is never executed while client = None), and every kick of the attached
\* client sends it Close with a reason and leaves client = None, init = None and
\* in_flight = false.
C32_NoPanicAndKickResets ==
    [](
      /\ \A s \in Sessions :
            /\ NoPanic(WSReplyConnect(Cur, s)) /\ KickDetaches(WSReplyConnect(Cur, s))
            /\ NoPanic(WSReplyDisconnect(Cur, s)) /\ KickDetaches(WSReplyDisconnect(Cur, s))
      /\ \A c \in CallerContents :
            LET st == queue_pending_message(Cur, [id |-> server_gen_id, content |-> c])
            IN  NoPanic(st) /\ KickDetaches(st)
      /\ \A s \in OpenSessions, type \in ReplyTypes, id \in ReplyIds :
            \A data \in ReplyData(type) :
                LET st == WSReplyResponse(Cur, s, type, id, data)
                IN  NoPanic(st) /\ KickDetaches(st)
      )

\* C32 witness: a ready client with a request in flight sent Init a second time,
\* was sent Close and is detached, the request still queued.
C32_Witness ==
    /\ client = NoClient
    /\ init_status = InitNone
    /\ ~is_handling_request
    /\ pending_messages # <<>>
    /\ emitted # <<>>
    /\ \E i \in Closes(effects) :
          /\ effects[i].data = "init already done"
          /\ effects[i].to = emitted[Len(emitted)].client

\* an open session that is not the client is sent nothing and is not made the
\* client by the handler of a message that is not its own response
OthersUntouched(st, from) ==
    /\ \A i \in 1..Len(st.eff) :
          (/\ st.eff[i].dst = "client"
           /\ st.eff[i].to # client
           /\ st.eff[i].to # from)
          => sess[st.eff[i].to] # "open"
    /\ (st.client \notin {client, NoClient, from}) => sess[st.client] # "open"

\* C33: when a second session connects while a client is attached, the Connect
\* handler sends no Close to the previously attached session; that session is
\* kicked only when it later sends a response and is rejected as "invalid client",
\* and until then it stays open without being the broker's client.
C33_DisplacedKickedOnItsReply ==
    [](
      /\ \A s \in Sessions :
            (client # NoClient /\ sess[s] = "new")
            => LET st == WSReplyConnect(Cur, s)
               IN  /\ Closes(st.eff) = {}
                   /\ \A i \in 1..Len(st.eff) : st.eff[i].to # client
                   /\ st.client = s
                   /\ OthersUntouched(st, s)
      /\ \A s \in Sessions : OthersUntouched(WSReplyDisconnect(Cur, s), s)
      /\ \A c \in CallerContents :
            OthersUntouched(
                queue_pending_message(Cur, [id |-> server_gen_id, content |-> c]),
                NoClient)
      /\ \A s \in OpenSessions, type \in ReplyTypes, id \in ReplyIds :
            \A data \in ReplyData(type) :
                LET st == WSReplyResponse(Cur, s, type, id, data)
                IN  /\ OthersUntouched(st, s)
                    /\ s # client
                          => /\ Closes(st.eff) # {}
                             /\ \A i \in Closes(st.eff) :
                                   /\ st.eff[i].to = s
                                   /\ st.eff[i].data = "invalid client"
                             /\ st.client = client
      )

\* C33 witness: session 1 was ready and had been sent a request, session 2
\* connected and finished its handshake, and only then session 1, still open,
\* answered and was sent Close("invalid client").
C33_Witness ==
    /\ client = 2
    /\ init_status = InitDone
    /\ sess[1] = "open"
    /\ emitted # <<>>
    /\ emitted[1].client = 1
    /\ effects = <<WSRequest(1, "Close", NoId, "invalid client")>>

\* ------------------------------------------------ more claims about the sessions
\* C34: a text frame that does not parse as a Response is rejected: nothing is
\* forwarded to the broker for that frame, the socket is closed with a close frame
\* of description "internal error (server)", and the session stops, its Disconnect
\* on the way to the broker.
C34_BadFrameRejected ==
    [][\A s \in Sessions :
          BadFrame(s)
          => /\ flow'[s].state = "stopped"
             /\ flow'[s].why = "close"
             /\ flow'[s].close = "internal error (server)"
             /\ UNCHANGED bvars
             /\ sess'[s] = "open"
             /\ (ENABLED SessionDisconnect(s))']_vars

\* C34 witness: a session that had completed its handshake stopped on a frame that
\* did not parse; the broker, which got nothing, still has it as its ready client.
C34_Witness ==
    \E s \in Sessions :
        /\ flow[s].state = "stopped"
        /\ flow[s].close = "internal error (server)"
        /\ sess[s] = "open"
        /\ client = s
        /\ init_status = InitDone

\* C35: a Close{reason} of the broker is never serialised into a text frame for
\* the tab: the session closes the WebSocket with close description equal to reason
\* and then stops; every other request variant produces exactly one text frame
\* carrying the same id and leaves the session running.
C35_CloseNotSerialised ==
    [][\A s \in Sessions :
          SessionRequest(s, TRUE)
          => LET msg == Head(inbox[s])
             IN  IF msg.type = "Close"
                 THEN /\ flow'[s].state = "stopped"
                      /\ flow'[s].why = "close"
                      /\ flow'[s].close = msg.data
                      /\ flow'[s].frame = NoFrame
                 ELSE /\ flow'[s].state = "open"
                      /\ flow'[s].close = ""
                      /\ flow'[s].frame = [type |-> msg.type, id |-> msg.id]
                      /\ inbox'[s] = Tail(inbox[s])]_vars

\* C35 witness: one session was closed with the broker's reason for a kick, and
\* the tab of a later session has the text frame of an Accounts request under the
\* id of the request at the head of the queue.
C35_Witness ==
    \E s, t \in Sessions :
        /\ flow[s].state = "stopped"
        /\ flow[s].why = "close"
        /\ flow[s].close = "init already done"
        /\ flow[t].state = "open"
        /\ pending_messages # <<>>
        /\ flow[t].frame = [type |-> "Accounts", id |-> Head(pending_messages).id]

\* ------------------------------------------------ more claims about the broker
\* C36: in every reachable broker state after a handler returns, client = None if
\* and only if init = None (a client is attached exactly when the handshake is
\* Pending or Done).
C36_ClientIffHandshake ==
    (client = NoClient) <=> (init_status = InitNone)

\* C36 witness: a session that was ready and had been sent a request is no longer
\* the client, and a session that connected after a Disconnect is attached with
\* its handshake pending.
C36_Witness ==
    /\ client # NoClient
    /\ init_status.tag = "Pending"
    /\ emitted # <<>>
    /\ \E s \in Sessions \ {client} : emitted[Len(emitted)].client = s
    /\ after_disconnect

\* the queue after a handler holds the queue before it in the same order, apart
\* from the head the handler may have popped and the request it may have appended
QueueKept(st) ==
    \/ st.pending_messages = pending_messages
    \/ /\ pending_messages # <<>>
       /\ st.pending_messages = Tail(pending_messages)
    \/ /\ Len(st.pending_messages) = Len(pending_messages) + 1
       /\ SubSeq(st.pending_messages, 1, Len(pending_messages)) = pending_messages

\* C37: no request is lost: a request leaves the broker queue only from the head,
\* only in the handler of a response from the attached client with init = Done
\* whose id equals that request's id, and in that same step an AsyncResponse with
\* that id is forwarded to the caller channel; no Connect, Disconnect, kick or
\* AsyncRequest removes or reorders queued requests.
C37_NoRequestLost ==
    [](
      /\ \A s \in Sessions :
            /\ WSReplyConnect(Cur, s).pending_messages = pending_messages
            /\ WSReplyDisconnect(Cur, s).pending_messages = pending_messages
      /\ \A c \in CallerContents :
            LET msg == [id |-> server_gen_id, content |-> c]
            IN  queue_pending_message(Cur, msg).pending_messages
                    = Append(pending_messages, msg)
      /\ \A s \in OpenSessions, type \in ReplyTypes, id \in ReplyIds :
            \A data \in ReplyData(type) :
                LET st == WSReplyResponse(Cur, s, type, id, data)
                IN  /\ QueueKept(st)
                    /\ Len(st.pending_messages) <= Len(pending_messages)
                    /\ Closes(st.eff) # {} => st.pending_messages = pending_messages
                    /\ st.pending_messages # pending_messages
                          => /\ s = client
                             /\ init_status = InitDone
                             /\ type # "Init"
                             /\ id = Head(pending_messages).id
                             /\ st.pending_messages = Tail(pending_messages)
                             /\ st.eff[1] = AsyncResponse(id, type, data)
      )

\* C37 witness: the first request was answered and forwarded, the client was then
\* kicked with the second request in flight, and that request is still the head of
\* the queue.
C37_Witness ==
    /\ Len(forwarded) = 1
    /\ Len(enqueued) = 2
    /\ client = NoClient
    /\ Closes(effects) # {}
    /\ Len(emitted) = 2
    /\ pending_messages # <<>>
    /\ Head(pending_messages).id = enqueued[2]
    /\ emitted[2].id = enqueued[2]

\* ------------------------------------------------ more claims about the wallet hook
\* the last request to the wallet added chain with success
JustAdded(chain) ==
    /\ Len(rpc_log') = Len(rpc_log) + 1
    /\ rpc_log'[Len(rpc_log')] = Rpc("wallet_addEthereumChain", chain, TRUE)

\* C38: provide_chain_info unblocks a waiting change_chain only on success: called
\* when no chain info is required it returns an error and issues no add-chain
\* request; when the add-chain request fails it returns that error,
\* requires_chain_info stays set and the blocked change_chain stays blocked; only
\* after add-chain succeeds is the waiting change_chain signalled and
\* requires_chain_info reset to None.
C38_UnblocksOnlyOnSuccess ==
    [][/\ (requires_chain_info = NoChain /\ ProvideChainInfo)
          => /\ provide'.pc = "done"
             /\ provide'.result = ProviderError("Unsupported: no chain info required")
             /\ UNCHANGED <<rpc_log, requires_chain_info, signal, change>>
       /\ (requires_chain_info # NoChain /\ ProvideChainInfo)
          => /\ provide'.pc = "adding"
             /\ UNCHANGED <<rpc_log, requires_chain_info, signal, change>>
       /\ \A switches \in BOOLEAN :
             AddChainResult("rejected", switches)
             => /\ provide'.pc = "done"
                /\ provide'.result = ProviderError("RPC")
                /\ requires_chain_info # NoChain
                /\ UNCHANGED <<requires_chain_info, signal, change>>
       /\ (signal # "sent" /\ signal' = "sent")
          => /\ change.pc = "blocked"
             /\ JustAdded(change.chain)
             /\ requires_chain_info = change.chain
             /\ requires_chain_info' = NoChain
             /\ provide'.result = Ok("")
       /\ (requires_chain_info # NoChain /\ requires_chain_info' = NoChain)
          => (signal' = "sent" /\ JustAdded(requires_chain_info))
       /\ ChangeChainResume
          => \E i \in change.first..Len(rpc_log) :
                rpc_log[i] = Rpc("wallet_addEthereumChain", change.chain, TRUE)]_vars

\* C38 witness: the wallet refused to add the chain, the chain is still required
\* and change_chain is still blocked after provide_chain_info returned the error.
C38_Witness ==
    /\ provide.pc = "done"
    /\ provide.result = ProviderError("RPC")
    /\ change.pc = "blocked"
    /\ signal = "open"
    /\ requires_chain_info = change.chain
    /\ rpc_log[Len(rpc_log)] = Rpc("wallet_addEthereumChain", change.chain, FALSE)

\* ------------------------------------------------ claims about the front-end
\* the responses sent under the id of task t
SentFor(t) == {i \in 1..Len(tx) : tx[i].id = tasks[t].request.id}

\* every call to the wallet that the request needs was answered with success
Succeeds(request, a) ==
    /\ request.content = "SignTransaction" => a.transform
    /\ (request.content \in {"Init", "SignTransaction"} /\ request.chain # 0) => a.switch
    /\ request.content # "Init" => a.call

\* the variant of the response that answers a request
ResponseTo(content) ==
    CASE content = "Init" -> "Init"
      [] content = "Accounts" -> "Accounts"
      [] OTHER -> "Signature"

\* C39: for every request the front-end receives over the WebSocket it sends
\* exactly one response carrying the same id: the provider's result on success,
\* Error{text} when the provider call fails, and
\* Error{"no wallet available in your browser"} when no wallet provider is
\* available.
C39_OneResponsePerRequest ==
    /\ [](\A t \in 1..Len(tasks) :
             /\ Cardinality(SentFor(t)) = (IF tasks[t].pc = "done" THEN 1 ELSE 0)
             /\ \A i \in SentFor(t) :
                   IF tasks[t].status = "Ok"
                   THEN tx[i].type \in {ResponseTo(tasks[t].request.content), "Error"}
                   ELSE tx[i] = WsResponse(tasks[t].request.id, "Error",
                                           "no wallet available in your browser"))
    /\ [][\A t \in 1..MaxFrames, a \in Answers :
             ProviderAnswer(t, a)
             => /\ Len(tx') = Len(tx) + 1
                /\ LET r == tx'[Len(tx')]
                   IN  /\ r.id = tasks[t].request.id
                       /\ IF Succeeds(tasks[t].request, a)
                          THEN r.type = ResponseTo(tasks[t].request.content)
                          ELSE /\ r.type = "Error"
                               /\ \E kind \in {"RPC", "Unsupported: transaction"} :
                                     r.data = Display(ProviderError(kind))]_vars

\* C39 witness: the first request came before a wallet was found and was answered
\* with the error for that, the second failed in the wallet and was answered with
\* the error of the wallet.
C39_Witness ==
    /\ Len(tasks) = 2
    /\ tasks[2].pc = "done"
    /\ tx[1] = WsResponse(1, "Error", "no wallet available in your browser")
    /\ tx[2] = WsResponse(2, "Error", Display(ProviderError("RPC")))

====
